---- MODULE Spec2Model ----
(***************************************************************************)
(* A model of SensitiveInfoDetector (src/sensitive_info_detector.py).     *)
(*                                                                         *)
(* A text is a sequence of characters.  An ASCII character is the one-    *)
(* character string holding it ("\n" and "\t" are the newline and the tab);*)
(* any other character is named by its code point, "u624b" for U+624B.    *)
(* Offsets are Python's: 0-based, text[a:b] is SubSeq(text, a+1, b).      *)
(***************************************************************************)
EXTENDS Integers, Sequences, FiniteSets, TLC

-----------------------------------------------------------------------------
(* Characters and character classes                                        *)

LowerSeq ==
  << "a","b","c","d","e","f","g","h","i","j","k","l","m",
     "n","o","p","q","r","s","t","u","v","w","x","y","z" >>
UpperSeq ==
  << "A","B","C","D","E","F","G","H","I","J","K","L","M",
     "N","O","P","Q","R","S","T","U","V","W","X","Y","Z" >>
DigitSeq == << "0","1","2","3","4","5","6","7","8","9" >>

Range(s) == { s[k] : k \in 1..Len(s) }
Lower == Range(LowerSeq)
Upper == Range(UpperSeq)
\* \d and [0-9], on the characters of the model (no non-ASCII digit is modelled)
Digit == Range(DigitSeq)
\* \s, on the characters of the model
Space == { " ", "\n", "\t" }

\* int(d) of one digit character
DigitVal(c) == (CHOOSE k \in 1..10 : DigitSeq[k] = c) - 1

\* re.IGNORECASE: the other case of a letter, the character itself otherwise
SwapCase(c) ==
  IF c \in Lower THEN UpperSeq[CHOOSE k \in 1..26 : LowerSeq[k] = c]
  ELSE IF c \in Upper THEN LowerSeq[CHOOSE k \in 1..26 : UpperSeq[k] = c]
  ELSE c

\* str.lower()
ToLower(s) == [ k \in 1..Len(s) |-> IF s[k] \in Upper THEN SwapCase(s[k]) ELSE s[k] ]

\* [一-龥], on the characters of the model
CJK ==
  { "u4e09","u4e0a","u4e2d","u4e3b","u4e4c","u4e8e","u4e9a","u4eac","u4eba","u4ee4","u4ef6",
    "u4efd","u4f20","u4f4d","u4f4f","u4fe1","u50a8","u5143","u5170","u5173","u5206","u522b",
    "u52a1","u5317","u533a","u5355","u5357","u5361","u539f","u53a6","u53bf","u53e3","u53f0",
    "u53f7","u5408","u540c","u540d","u547c","u548c","u54c8","u5668","u56fd","u5728","u5730",
    "u5733","u5740","u5927","u5929","u592a","u5b50","u5b81","u5b89","u5ba2","u5ba4","u5bb6",
    "u5bc6","u5c14","u5c9b","u5ddd","u5dde","u5df7","u5e02","u5e7f","u5e84","u5e86","u5ea7",
    "u5ead","u5f0f","u5f20","u5f55","u606f","u6210","u6237","u624b","u6253","u62c9","u62e8",
    "u653f","u65b9","u6606","u660c","u660e","u6625","u670d","u6728","u673a","u674e","u6751",
    "u676d","u697c","u6b66","u6c11","u6c49","u6c88","u6c99","u6d25","u6d4e","u6d69","u6d77",
    "u6dc0","u6df1","u6e2f","u6ee8","u6fb3","u7279","u738b","u7528","u7535","u767b","u7701",
    "u771f","u77f3","u7801","u798f","u7bb1","u7cfb","u7edc","u7f16","u7f51","u8054","u80a5",
    "u80e1","u8428","u84c4","u884c","u8857","u897f","u8bc1","u8bdd","u8d26","u8d35","u8def",
    "u8eab","u8fde","u9053","u90ae","u90d1","u90fd","u91cd","u94f6","u957f","u95e8","u9633",
    "u9645","u9752","u9999","u9c81","u9f50" }

\* \w of a str pattern: letters, digits, underscore, and every CJK ideograph
WordChar == Lower \cup Upper \cup Digit \cup {"_"} \cup CJK

Max(a, b) == IF a >= b THEN a ELSE b
Min(a, b) == IF a <= b THEN a ELSE b
\* text[a:b]
Slice(text, a, b) == SubSeq(text, a + 1, b)

-----------------------------------------------------------------------------
(* Regular expressions: the subset of Python's re the patterns use, as     *)
(* syntax trees, matched by backtracking in re's priority order.           *)

Set(S) == [op |-> "set", set |-> S]
Cat(parts) == [op |-> "cat", parts |-> parts]
Alt(parts) == [op |-> "alt", parts |-> parts]
\* greedy sub{lo,hi}; hi = -1 is "no upper limit"
Rep(sub, lo, hi) == [op |-> "rep", sub |-> sub, lo |-> lo, hi |-> hi]
Opt(sub) == Rep(sub, 0, 1)
\* capturing group 1
Grp(sub) == [op |-> "grp", sub |-> sub]
\* (?<!\d), (?!\d), \b, $
NotAfterDigit == [op |-> "nlb"]
NotBeforeDigit == [op |-> "nla"]
WordBoundary == [op |-> "wb"]
Eol == [op |-> "eol"]
\* a literal string
Lit(s) == [op |-> "lit", s |-> s]

\* The first occurrences of s, in order.
Uniq(s) ==
  LET RECURSIVE U(_, _)
      U(k, acc) ==
        IF k > Len(s) THEN acc
        ELSE U(k + 1, IF \E j \in 1..Len(acc) : acc[j] = s[k]
                      THEN acc ELSE Append(acc, s[k]))
  IN U(1, <<>>)

IsWord(text, k) == k >= 1 /\ k <= Len(text) /\ text[k] \in WordChar

\* A match state is <<i, gs, ge>>: i characters consumed, group 1 spanning
\* [gs, ge) (-1: not set).  Ends yields the states a match of re from st can
\* end in, in the order a backtracking matcher tries them.
RECURSIVE Ends(_, _, _, _), CatEnds(_, _, _, _, _), RepEnds(_, _, _, _, _, _)
Ends(re, text, st, ic) ==
  LET i == st[1] IN
  CASE re.op = "set" ->
         IF i < Len(text)
            /\ (text[i + 1] \in re.set \/ (ic /\ SwapCase(text[i + 1]) \in re.set))
         THEN << <<i + 1, st[2], st[3]>> >> ELSE <<>>
    [] re.op = "lit" ->
         IF i + Len(re.s) <= Len(text)
            /\ \A k \in 1..Len(re.s) :
                 text[i + k] = re.s[k] \/ (ic /\ SwapCase(text[i + k]) = re.s[k])
         THEN << <<i + Len(re.s), st[2], st[3]>> >> ELSE <<>>
    [] re.op = "cat" -> CatEnds(re.parts, 1, text, << st >>, ic)
    [] re.op = "alt" ->
         LET RECURSIVE A(_)
             A(k) == IF k > Len(re.parts) THEN <<>>
                     ELSE Ends(re.parts[k], text, st, ic) \o A(k + 1)
         IN Uniq(A(1))
    [] re.op = "rep" -> RepEnds(re.sub, re.lo, re.hi, text, st, ic)
    [] re.op = "grp" ->
         LET r == Ends(re.sub, text, st, ic)
         IN [ k \in 1..Len(r) |-> <<r[k][1], i, r[k][1]>> ]
    [] re.op = "nlb" -> IF i >= 1 /\ text[i] \in Digit THEN <<>> ELSE << st >>
    [] re.op = "nla" -> IF i < Len(text) /\ text[i + 1] \in Digit THEN <<>> ELSE << st >>
    [] re.op = "wb" -> IF IsWord(text, i) # IsWord(text, i + 1) THEN << st >> ELSE <<>>
    [] re.op = "eol" ->
         IF i = Len(text) \/ (i = Len(text) - 1 /\ text[Len(text)] = "\n")
         THEN << st >> ELSE <<>>

\* parts[k..] matched from each of the states sts, in order
CatEnds(parts, k, text, sts, ic) ==
  IF k > Len(parts) \/ sts = <<>> THEN sts
  ELSE LET RECURSIVE F(_)
           F(j) == IF j > Len(sts) THEN <<>>
                   ELSE Ends(parts[k], text, sts[j], ic) \o F(j + 1)
       IN CatEnds(parts, k + 1, text, Uniq(F(1)), ic)

\* Greedy repetition.  Of a character class: the longest run first, then one
\* character fewer at a time, down to lo.  Otherwise: one more sub first,
\* stopping here last.
RepEnds(sub, lo, hi, text, st, ic) ==
  IF sub.op = "set"
  THEN LET i == st[1]
           cap == IF hi = -1 THEN Len(text) - i ELSE Min(hi, Len(text) - i)
           Fits(k) == text[i + k] \in sub.set \/ (ic /\ SwapCase(text[i + k]) \in sub.set)
           n == CHOOSE k \in 0..cap :
                  (\A j \in 1..k : Fits(j)) /\ (k = cap \/ ~Fits(k + 1))
       IN IF n < lo THEN <<>>
          ELSE [ j \in 1..(n - lo + 1) |-> <<i + n - j + 1, st[2], st[3]>> ]
  ELSE IF hi = 0 THEN << st >>
  ELSE LET first == Ends(sub, text, st, ic)
           RECURSIVE F(_)
           F(j) == IF j > Len(first) THEN <<>>
                   ELSE (IF first[j][1] > st[1]
                         THEN RepEnds(sub, Max(lo - 1, 0), IF hi = -1 THEN -1 ELSE hi - 1,
                                      text, first[j], ic)
                         ELSE <<>>) \o F(j + 1)
       IN Uniq(F(1) \o (IF lo = 0 THEN << st >> ELSE <<>>))

\* re.match(re, s): a match at offset 0 (flags 0)
ReMatch(re, s) == Ends(re, s, <<0, -1, -1>>, FALSE) # <<>>

\* re.finditer(re, text, flags): the leftmost match from pos, then the next from
\* its end.  (No pattern of the registry matches the empty string.)
RECURSIVE FindIter(_, _, _, _)
FindIter(re, text, pos, ic) ==
  LET starts == { p \in pos..Len(text) : Ends(re, text, <<p, -1, -1>>, ic) # <<>> } IN
  IF starts = {} THEN <<>>
  ELSE LET s == CHOOSE p \in starts : \A q \in starts : p <= q
           r == Ends(re, text, <<s, -1, -1>>, ic)[1]
       IN << [start |-> s, end |-> r[1], gstart |-> r[2], gend |-> r[3]] >>
          \o FindIter(re, text, IF r[1] > s THEN r[1] ELSE s + 1, ic)

\* re.search of a literal keyword: kw occurs in s
Contains(s, kw) ==
  \E a \in 0..(Len(s) - Len(kw)) : Slice(s, a, a + Len(kw)) = kw
ContainsAny(s, kws) == \E kw \in kws : Contains(s, kw)

-----------------------------------------------------------------------------
(* The pattern registry (self.patterns)                                    *)

\* the digits a..b
Digits(a, b) == { DigitSeq[k + 1] : k \in a..b }
\* the string of the decimal digits ds
Num(ds) == [ k \in 1..Len(ds) |-> DigitSeq[ds[k] + 1] ]
AlNum == Lower \cup Upper \cup Digit

\* (?:\+?86)?(?<!\d)1[3-9]\d{9}(?!\d)
PhonePattern ==
  Cat(<< Opt(Cat(<< Opt(Set({"+"})), Lit(<<"8","6">>) >>)), NotAfterDigit,
         Set({"1"}), Set(Digits(3, 9)), Rep(Set(Digit), 9, 9), NotBeforeDigit >>)

\* (?<!\d)(?:0\d{2,3}[-\s])?(?:[2-9]\d{6,7})(?!\d)
LandlineBody ==
  << Opt(Cat(<< Set({"0"}), Rep(Set(Digit), 2, 3), Set({"-"} \cup Space) >>)),
     Cat(<< Set(Digits(2, 9)), Rep(Set(Digit), 6, 7) >>) >>
LandlinePattern == Cat(<< NotAfterDigit >> \o LandlineBody \o << NotBeforeDigit >>)

\* (?<!\d)[1-9]\d{5}(?:19|20)\d{2}(?:0[1-9]|1[0-2])(?:0[1-9]|[12]\d|3[01])\d{3}[\dXx](?!\d)
IdCardBody ==
  << Set(Digits(1, 9)), Rep(Set(Digit), 5, 5),
     Alt(<< Lit(<<"1","9">>), Lit(<<"2","0">>) >>), Rep(Set(Digit), 2, 2),
     Alt(<< Cat(<< Set({"0"}), Set(Digits(1, 9)) >>),
            Cat(<< Set({"1"}), Set(Digits(0, 2)) >>) >>),
     Alt(<< Cat(<< Set({"0"}), Set(Digits(1, 9)) >>),
            Cat(<< Set({"1","2"}), Set(Digit) >>),
            Cat(<< Set({"3"}), Set({"0","1"}) >>) >>),
     Rep(Set(Digit), 3, 3), Set(Digit \cup {"X","x"}) >>
IdCardPattern == Cat(<< NotAfterDigit >> \o IdCardBody \o << NotBeforeDigit >>)

\* (?:北京|上海|...|台北)(?:市|省|特别行政区)?[一-龥]{1,3}(?:区|县|市)
\* [一-龥]{2,10}(?:路|街|道|巷|胡同)[一-龥\d]{1,10}号?
\* (?:[一-龥\d]{1,10}(?:号楼|单元|室|号))?
AddressPattern ==
  Cat(<<
    Alt(<<
      Lit(<<"u5317","u4eac">>), Lit(<<"u4e0a","u6d77">>), Lit(<<"u5929","u6d25">>),
      Lit(<<"u91cd","u5e86">>), Lit(<<"u5e7f","u5dde">>), Lit(<<"u6df1","u5733">>),
      Lit(<<"u676d","u5dde">>), Lit(<<"u5357","u4eac">>), Lit(<<"u6b66","u6c49">>),
      Lit(<<"u6210","u90fd">>), Lit(<<"u897f","u5b89">>), Lit(<<"u6c88","u9633">>),
      Lit(<<"u5927","u8fde">>), Lit(<<"u9752","u5c9b">>), Lit(<<"u6d4e","u5357">>),
      Lit(<<"u90d1","u5dde">>), Lit(<<"u957f","u6c99">>), Lit(<<"u798f","u5dde">>),
      Lit(<<"u53a6","u95e8">>), Lit(<<"u54c8","u5c14","u6ee8">>), Lit(<<"u957f","u6625">>),
      Lit(<<"u592a","u539f">>), Lit(<<"u77f3","u5bb6","u5e84">>),
      Lit(<<"u547c","u548c","u6d69","u7279">>), Lit(<<"u5357","u5b81">>),
      Lit(<<"u94f6","u5ddd">>), Lit(<<"u4e4c","u9c81","u6728","u9f50">>),
      Lit(<<"u62c9","u8428">>), Lit(<<"u897f","u5b81">>), Lit(<<"u5170","u5dde">>),
      Lit(<<"u8d35","u9633">>), Lit(<<"u6606","u660e">>), Lit(<<"u5357","u660c">>),
      Lit(<<"u5408","u80a5">>), Lit(<<"u6d77","u53e3">>), Lit(<<"u4e09","u4e9a">>),
      Lit(<<"u9999","u6e2f">>), Lit(<<"u6fb3","u95e8">>), Lit(<<"u53f0","u5317">>)
    >>),
    Opt(Alt(<< Lit(<<"u5e02">>), Lit(<<"u7701">>),
               Lit(<<"u7279","u522b","u884c","u653f","u533a">>) >>)),
    Rep(Set(CJK), 1, 3),
    Alt(<< Lit(<<"u533a">>), Lit(<<"u53bf">>), Lit(<<"u5e02">>) >>),
    Rep(Set(CJK), 2, 10),
    Alt(<< Lit(<<"u8def">>), Lit(<<"u8857">>), Lit(<<"u9053">>), Lit(<<"u5df7">>),
           Lit(<<"u80e1","u540c">>) >>),
    Rep(Set(CJK \cup Digit), 1, 10),
    Opt(Lit(<<"u53f7">>)),
    Opt(Cat(<< Rep(Set(CJK \cup Digit), 1, 10),
               Alt(<< Lit(<<"u53f7","u697c">>), Lit(<<"u5355","u5143">>),
                      Lit(<<"u5ba4">>), Lit(<<"u53f7">>) >>) >>))
  >>)

\* [a-zA-Z0-9._%+-]+@[a-zA-Z0-9.-]+\.[a-zA-Z]{2,}
EmailBody ==
  << Rep(Set(AlNum \cup {".","_","%","+","-"}), 1, -1), Set({"@"}),
     Rep(Set(AlNum \cup {".","-"}), 1, -1), Set({"."}),
     Rep(Set(Lower \cup Upper), 2, -1) >>
EmailPattern == Cat(EmailBody)

\* (?:密码|password|pwd)[：:]\s*([a-zA-Z0-9@#$%^&*]{6,20})
PasswordPattern ==
  Cat(<< Alt(<< Lit(<<"u5bc6","u7801">>), Lit(<<"p","a","s","s","w","o","r","d">>),
                Lit(<<"p","w","d">>) >>),
         Set({"uff1a", ":"}), Rep(Set(Space), 0, -1),
         Grp(Rep(Set(AlNum \cup {"@","#","$","%","^","&","*"}), 6, 20)) >>)

\* (?<!\d)(?:\d{4}[\s-]?){3,4}\d{0,4}(?!\d)
CreditCardPattern ==
  Cat(<< NotAfterDigit,
         Rep(Cat(<< Rep(Set(Digit), 4, 4), Opt(Set(Space \cup {"-"})) >>), 3, 4),
         Rep(Set(Digit), 0, 4), NotBeforeDigit >>)

\* 25[0-5]|2[0-4][0-9]|[01]?[0-9][0-9]?
Octet ==
  Alt(<< Cat(<< Lit(<<"2","5">>), Set(Digits(0, 5)) >>),
         Cat(<< Set({"2"}), Set(Digits(0, 4)), Set(Digit) >>),
         Cat(<< Opt(Set({"0","1"})), Set(Digit), Opt(Set(Digit)) >>) >>)
\* \b(?:(?:octet)\.){3}(?:octet)\b
IpAddressPattern ==
  Cat(<< WordBoundary, Rep(Cat(<< Octet, Set({"."}) >>), 3, 3), Octet, WordBoundary >>)

\* the registry's keys, in insertion order
TypeOrder ==
  << "phone", "landline", "id_card", "address", "email", "password",
     "credit_card", "ip_address" >>
TypeIds == Range(TypeOrder)

\* self.patterns[type_id]['pattern']
patterns ==
  [ phone |-> PhonePattern, landline |-> LandlinePattern, id_card |-> IdCardPattern,
    address |-> AddressPattern, email |-> EmailPattern, password |-> PasswordPattern,
    credit_card |-> CreditCardPattern, ip_address |-> IpAddressPattern ]

-----------------------------------------------------------------------------
(* The context keywords of the validators                                  *)

\* (手机|电话|联系|拨打|号码)
PhoneKeywords ==
  { <<"u624b","u673a">>,
    <<"u7535","u8bdd">>,
    <<"u8054","u7cfb">>,
    <<"u62e8","u6253">>,
    <<"u53f7","u7801">> }

\* (电话|座机|分机|传真|客服)
LandlineKeywords ==
  { <<"u7535","u8bdd">>,
    <<"u5ea7","u673a">>,
    <<"u5206","u673a">>,
    <<"u4f20","u771f">>,
    <<"u5ba2","u670d">> }

\* (身份证|证件|号码|身份|证号)
IdCardKeywords ==
  { <<"u8eab","u4efd","u8bc1">>,
    <<"u8bc1","u4ef6">>,
    <<"u53f7","u7801">>,
    <<"u8eab","u4efd">>,
    <<"u8bc1","u53f7">> }

\* (地址|住址|家庭|位于|住在)
AddressKeywords ==
  { <<"u5730","u5740">>,
    <<"u4f4f","u5740">>,
    <<"u5bb6","u5ead">>,
    <<"u4f4d","u4e8e">>,
    <<"u4f4f","u5728">> }

\* (邮箱|邮件|电子邮件|Email|联系)
EmailKeywords ==
  { <<"u90ae","u7bb1">>,
    <<"u90ae","u4ef6">>,
    <<"u7535","u5b50","u90ae","u4ef6">>,
    <<"E","m","a","i","l">>,
    <<"u8054","u7cfb">> }

\* (密码|口令|password|pwd)
PasswordKeywords ==
  { <<"u5bc6","u7801">>,
    <<"u53e3","u4ee4">>,
    <<"p","a","s","s","w","o","r","d">>,
    <<"p","w","d">> }

\* (银行卡|信用卡|储蓄卡|卡号|账号)
CreditCardKeywords ==
  { <<"u94f6","u884c","u5361">>,
    <<"u4fe1","u7528","u5361">>,
    <<"u50a8","u84c4","u5361">>,
    <<"u5361","u53f7">>,
    <<"u8d26","u53f7">> }

\* (IP|地址|服务器|网络|主机)
IpKeywords ==
  { <<"I","P">>,
    <<"u5730","u5740">>,
    <<"u670d","u52a1","u5668">>,
    <<"u7f51","u7edc">>,
    <<"u4e3b","u673a">> }


-----------------------------------------------------------------------------
(* The validators                                                          *)

\* What a call yields: a value returned, or an exception raised.
Return(v) == [exc |-> "none", val |-> v]
Raise(e) == [exc |-> e, val |-> 0]

\* _get_context_text as it would be with the following context left out:
\* text[max(0, start - context_size) : end]
_get_context_text_NoSuffix(text, start, end, context_size) ==
  Slice(text, Max(0, start - context_size), Min(Len(text), end))

\* text[max(0, start - context_size) : min(len(text), end + context_size)]
_get_context_text(text, start, end, context_size) ==
  LET context_start == Max(0, start - context_size)
      context_end == Min(Len(text), end + context_size)
  IN Slice(text, context_start, context_end)

\* the context_size the validators pass, and _get_context's default
ContextSize == 20

IsDigits(s) == \A k \in 1..Len(s) : s[k] \in Digit
\* int(s) of a string of digits
RECURSIVE IntOf(_)
IntOf(s) == IF s = <<>> THEN 0 ELSE 10 * IntOf(SubSeq(s, 1, Len(s) - 1)) + DigitVal(s[Len(s)])

\* match.group()
Group0(m, text) == Slice(text, m.start, m.end)

\* the list of invalid numbers with 13800138000 left out
PlaceholderPhones_Short ==
  { Num(<<1,2,3,4,5,6,7,8,9,1,0>>), Num(<<1,3,9,1,2,3,4,5,6,7,8>>) }

PlaceholderPhones ==
  { Num(<<1,2,3,4,5,6,7,8,9,1,0>>), Num(<<1,3,8,0,0,1,3,8,0,0,0>>),
    Num(<<1,3,9,1,2,3,4,5,6,7,8>>) }

_validate_phone(m, text) ==
  LET phone == Group0(m, text)
      all_digits == SelectSeq(phone, LAMBDA c : c \in Digit)
      digits_only == IF Len(all_digits) > 11 /\ SubSeq(all_digits, 1, 2) = <<"8","6">>
                     THEN SubSeq(all_digits, 3, Len(all_digits)) ELSE all_digits
      context == _get_context_text(text, m.start, m.end, ContextSize)
  IN IF ~ReMatch(Cat(<< Set({"1"}), Set(Digits(3, 9)), Rep(Set(Digit), 9, 9), Eol >>),
                 digits_only)
     THEN Return(0)
     ELSE IF ContainsAny(context, PhoneKeywords) THEN Return(100)
     ELSE IF digits_only \in PlaceholderPhones THEN Return(0)
     ELSE Return(80)

_validate_landline(m, text) ==
  LET landline == Group0(m, text)
      context == _get_context_text(text, m.start, m.end, ContextSize)
  IN IF ~ReMatch(Cat(LandlineBody \o << Eol >>), landline) THEN Return(0)
     ELSE IF ContainsAny(context, LandlineKeywords) THEN Return(100)
     ELSE Return(70)

_validate_id_card(m, text) ==
  LET id_card == Group0(m, text)
      context == _get_context_text(text, m.start, m.end, ContextSize)
      ys == Slice(id_card, 6, 10)
      ms == Slice(id_card, 10, 12)
      ds == Slice(id_card, 12, 14)
  IN IF ~ReMatch(Cat(IdCardBody \o << Eol >>), id_card) THEN Return(0)
     ELSE IF ContainsAny(context, IdCardKeywords) THEN Return(100)
     ELSE IF ~(IsDigits(ys) /\ IsDigits(ms) /\ IsDigits(ds)) THEN Raise("ValueError")
     ELSE LET year == IntOf(ys)
              month == IntOf(ms)
              day == IntOf(ds)
          IN IF year < 1900 \/ year > 2100 \/ month < 1 \/ month > 12
                \/ day < 1 \/ day > 31
             THEN Return(0)
             ELSE Return(90)

_validate_address(m, text) ==
  LET address == Group0(m, text)
      context == _get_context_text(text, m.start, m.end, ContextSize)
  IN IF ContainsAny(context, AddressKeywords) THEN Return(100)
     ELSE IF Len(address) < 10 THEN Return(0)
     ELSE Return(80)

_validate_email(m, text) ==
  LET email == Group0(m, text)
      context == _get_context_text(text, m.start, m.end, ContextSize)
      test == Cat(<< Alt(<< Lit(<<"t","e","s","t">>),
                            Lit(<<"e","x","a","m","p","l","e">>),
                            Lit(<<"s","a","m","p","l","e">>) >>), Set({"@"}) >>)
  IN IF ~ReMatch(Cat(EmailBody \o << Eol >>), email) THEN Return(0)
     ELSE IF ContainsAny(context, EmailKeywords) THEN Return(100)
     ELSE IF ReMatch(test, ToLower(email)) THEN Return(30)
     ELSE Return(80)

_validate_password(m, text) ==
  LET context == _get_context_text(text, m.start, m.end, ContextSize)
  IN IF ContainsAny(context, PasswordKeywords) THEN Return(100)
     ELSE Return(90)

\* The Luhn sum: from the right, every second digit doubled, less 9 when over 9.
LuhnSum(card) ==
  LET n == Len(card)
      RECURSIVE S(_)
      S(k) == IF k > n THEN 0
              ELSE LET d == DigitVal(card[k])
                       \* index i = k - 1 is doubled when i = n-2, n-4, ...
                       v == IF (n - 2 - (k - 1)) >= 0 /\ (n - 2 - (k - 1)) % 2 = 0
                            THEN (IF 2 * d > 9 THEN 2 * d - 9 ELSE 2 * d)
                            ELSE d
                   IN v + S(k + 1)
  IN S(1)

\* _validate_credit_card as it would be with the keyword search before the
\* format check
_validate_credit_card_KeywordFirst(m, text) ==
  LET card == SelectSeq(Group0(m, text), LAMBDA c : c \notin {" ", "-"})
      context == _get_context_text(text, m.start, m.end, ContextSize)
  IN IF ContainsAny(context, CreditCardKeywords) THEN Return(100)
     ELSE IF ~ReMatch(Cat(<< Rep(Set(Digit), 16, 19), Eol >>), card) THEN Return(0)
     ELSE IF ~IsDigits(card) THEN Raise("ValueError")
     ELSE IF LuhnSum(card) % 10 # 0 THEN Return(0)
     ELSE Return(80)

_validate_credit_card(m, text) ==
  LET card == SelectSeq(Group0(m, text), LAMBDA c : c \notin {" ", "-"})
      context == _get_context_text(text, m.start, m.end, ContextSize)
  IN IF ~ReMatch(Cat(<< Rep(Set(Digit), 16, 19), Eol >>), card) THEN Return(0)
     ELSE IF ContainsAny(context, CreditCardKeywords) THEN Return(100)
     \* [int(d) for d in card]
     ELSE IF ~IsDigits(card) THEN Raise("ValueError")
     ELSE IF LuhnSum(card) % 10 # 0 THEN Return(0)
     ELSE Return(80)

\* ip.split('.')
RECURSIVE Split(_, _)
Split(s, sep) ==
  IF \A k \in 1..Len(s) : s[k] # sep THEN << s >>
  ELSE LET k == CHOOSE j \in 1..Len(s) : s[j] = sep /\ \A h \in 1..(j - 1) : s[h] # sep
       IN << SubSeq(s, 1, k - 1) >> \o Split(SubSeq(s, k + 1, Len(s)), sep)

SpecialIps ==
  { <<"1","2","7",".","0",".","0",".","1">>, <<"0",".","0",".","0",".","0">>,
    <<"2","5","5",".","2","5","5",".","2","5","5",".","2","5","5">> }

_validate_ip_address(m, text) ==
  LET ip == Group0(m, text)
      parts == Split(ip, ".")
      context == _get_context_text(text, m.start, m.end, ContextSize)
  IN IF Len(parts) # 4 THEN Return(0)
     ELSE IF \E k \in 1..4 : parts[k] = <<>> \/ ~IsDigits(parts[k]) \/ IntOf(parts[k]) > 255
     THEN Return(0)
     ELSE IF ContainsAny(context, IpKeywords) THEN Return(100)
     ELSE IF ip \in SpecialIps THEN Return(50)
     ELSE Return(70)

\* self.patterns[type_id]['validator'](match, text)
Validate(type_id, m, text) ==
  CASE type_id = "phone" -> _validate_phone(m, text)
    [] type_id = "landline" -> _validate_landline(m, text)
    [] type_id = "id_card" -> _validate_id_card(m, text)
    [] type_id = "address" -> _validate_address(m, text)
    [] type_id = "email" -> _validate_email(m, text)
    [] type_id = "password" -> _validate_password(m, text)
    [] type_id = "credit_card" -> _validate_credit_card(m, text)
    [] type_id = "ip_address" -> _validate_ip_address(m, text)

-----------------------------------------------------------------------------
(* The documents scanned                                                   *)

\* n filler characters: the fullwidth comma "，"
Fill(n) == [ k \in 1..n |-> "uff0c" ]

\* 手机, 号码, 卡号, 密码, ：
KwShouJi == <<"u624b","u673a">>
KwHaoMa == <<"u53f7","u7801">>
KwKaHao == <<"u5361","u53f7">>
KwMiMa == <<"u5bc6","u7801">>
FullColon == <<"uff1a">>

\* The longest run of filler between a keyword and a number: the keyword is
\* inside the window, across its edge and outside it.
MaxPad == 20
Pads == { 0, ContextSize - 2, ContextSize - 1 } \cup (ContextSize..MaxPad)

Mobile == Num(<<1,3,8,1,2,3,4,5,6,7,8>>)
Placeholder == Num(<<1,3,8,0,0,1,3,8,0,0,0>>)
PhoneNumbers ==
  { Mobile, Placeholder, <<"+","8","6">> \o Mobile, <<"8","6">> \o Mobile }

PhoneTexts ==
  { kw \o Fill(a) \o n : kw \in { <<>>, KwShouJi }, a \in Pads, n \in PhoneNumbers }
  \cup { n \o Fill(a) \o KwHaoMa : a \in Pads, n \in PhoneNumbers }
  \cup { kw \o Mobile : kw \in PhoneKeywords \cup { KwKaHao, <<"u624b">> } }
  \cup { KwShouJi \o KwHaoMa \o Mobile, Mobile \o <<" ">> \o Placeholder }

\* ds in groups of four joined by sep
Grouped(ds, sep) ==
  LET RECURSIVE G(_)
      G(k) == IF k > Len(ds) THEN <<>>
              ELSE (IF k > 1 /\ (k - 1) % 4 = 0 THEN sep ELSE <<>>) \o << DigitSeq[ds[k] + 1] >>
                   \o G(k + 1)
  IN G(1)

CardStem == <<4,1,1,1,1,1,1,1,1,1,1,1,1,1>>
\* the digits tried in the last two places of a card number
CardTails == { <<e, d>> : e \in {1, 5, 9}, d \in 0..9 }
CardTexts ==
  { Grouped(CardStem \o t, <<" ">>) : t \in CardTails }
  \cup { pre \o Grouped(CardStem \o <<1, d>> \o more, sep) \o post :
           pre \in { <<>>, KwKaHao }, d \in {1, 2}, more \in { <<>>, <<3>>, <<3,3,3>>, <<3,3,3,3>> },
           sep \in { <<>>, <<"-">>, <<"\n">> }, post \in { <<>>, <<"\n">>, <<" ", "x">> } }
  \cup { Grouped(CardStem \o <<1, 1>>, <<"\t">>), Grouped(<<4,1,1,1,1,1,1,1,1,1,1,1>>, <<" ">>) }

Secret == <<"A","d","m","i","n","@","1","2","3","4","5","6">>
PasswordTexts ==
  { label \o sep \o gap \o pw :
      label \in { KwMiMa, <<"p","w","d">>, <<"P","a","s","s","w","o","r","d">> },
      sep \in { FullColon, <<":">> }, gap \in { <<>>, <<" ">> },
      pw \in { Secret, <<"a","b","c","1","2">> } }

BlankTexts == { <<>>, <<" ">>, <<" ", "\n", "\t">> }

OtherTexts ==
  { <<"0","1","0","-">> \o Num(<<1,2,3,4,5,6,7,8>>),
    Num(<<1,1,0,1,0,1,1,9,9,0,0,1,0,1,1,2,3,4>>),
    <<"u8eab","u4efd","u8bc1">> \o Num(<<1,1,0,1,0,1,1,9,9,0,0,1,0,1,1,2,3>>) \o <<"X">>,
    <<"t","e","s","t","@","a","b",".","c","n">>,
    <<"E","m","a","i","l"," ","b","o","b","@","a","b",".","c","n">>,
    <<"1","9","2",".","1","6","8",".","1",".","1","0","0">>,
    <<"I","P"," ","1","2","7",".","0",".","0",".","1">>,
    <<"1","2","7",".","0",".","0",".","1">>,
    <<"u5317","u4eac","u5e02","u6d77","u6dc0","u533a","u4e2d","u5173","u6751","u5357",
      "u5927","u8857","5","u53f7">>,
    <<"u5730","u5740","u4e0a","u6d77","u5e02","u4eba","u6c11","u533a","u4eba","u6c11",
      "u8def","5">>,
    KwMiMa \o FullColon \o Secret \o <<" ">> \o Mobile \o <<" ">>
      \o Grouped(CardStem \o <<1, 1>>, <<" ">>) }

\* several matches of one type in one text
RepeatTexts ==
  { KwMiMa \o FullColon \o Secret \o <<" ", "p", "w", "d", ":">> \o Secret,
    <<"P","W","D",":">> \o Secret \o <<"\n">> \o KwMiMa \o <<":", " ">> \o Secret,
    Mobile \o <<"uff0c">> \o Mobile \o <<" ">> \o Mobile,
    KwKaHao \o Grouped(CardStem \o <<1, 1>>, <<>>) \o <<"uff0c">>
      \o Grouped(CardStem \o <<1, 2>>, <<"-">>) }

\* a keyword beside a candidate that its validator would score low: a test
\* mailbox, a card number of twelve digits
OrderTexts ==
  { <<"E","m","a","i","l"," ","t","e","s","t","@","a","b",".","c","n">>,
    KwKaHao \o Grouped(<<4,1,1,1,1,1,1,1,1,1,1,1>>, <<" ">>) }

Texts ==
  PhoneTexts \cup CardTexts \cup PasswordTexts \cup BlankTexts \cup OtherTexts
    \cup RepeatTexts \cup OrderTexts

-----------------------------------------------------------------------------
(* detect_sensitive_info                                                   *)

\* info_types=None
None == << "None" >>

\* The test as it would be without strip(): text == ""
IsBlank_NoStrip(text) == text = <<>>

\* text.strip() == ""
IsBlank(text) == \A k \in 1..Len(text) : text[k] \in Space

\* _get_context as it would be with the following context cut at the text's
\* end only: text[end:]
_get_context_WholeSuffix(text, start, end, context_size) ==
  LET context_start == Max(0, start - context_size)
  IN Slice(text, context_start, start) \o << "u3010" >> \o Slice(text, start, end)
       \o << "u3011" >> \o Slice(text, end, Len(text))

\* prefix + "【" + match + "】" + suffix
_get_context(text, start, end, context_size) ==
  LET context_start == Max(0, start - context_size)
      context_end == Min(Len(text), end + context_size)
      prefix == Slice(text, context_start, start)
      match == Slice(text, start, end)
      suffix == Slice(text, end, context_end)
  IN prefix \o << "u3010" >> \o match \o << "u3011" >> \o suffix

\* re.finditer(pattern, text, re.IGNORECASE), each match with what its validator
\* yields.  Matching and validating read nothing but the text.
Candidates(type_id, text) ==
  LET ms == FindIter(patterns[type_id], text, 0, TRUE)
      RECURSIVE C(_)
      C(k) == IF k > Len(ms) THEN <<>>
              ELSE << [m |-> ms[k], v |-> Validate(type_id, ms[k], text)] >> \o C(k + 1)
  IN C(1)


\* The entry as it would be if a password match reported group 1 as its value
\* with the offsets of the whole match.
MatchEntry_WholeOffsets(type_id, m, text, confidence) ==
  [ value |-> IF type_id = "password" /\ m.gstart # -1
              THEN Slice(text, m.gstart, m.gend) ELSE Slice(text, m.start, m.end),
    start |-> m.start, end |-> m.end,
    context |-> _get_context(text, m.start, m.end, ContextSize),
    confidence |-> confidence ]

\* The entry appended to results[type_id]: a password match reports group 1.
MatchEntry(type_id, m, text, confidence) ==
  IF type_id = "password" /\ m.gstart # -1
  THEN [ value |-> Slice(text, m.gstart, m.gend), start |-> m.gstart, end |-> m.gend,
         context |-> _get_context(text, m.gstart, m.gend, ContextSize),
         confidence |-> confidence ]
  ELSE [ value |-> Group0(m, text), start |-> m.start, end |-> m.end,
         context |-> _get_context(text, m.start, m.end, ContextSize),
         confidence |-> confidence ]

\* The filter as it would be with the comparison turned round.
Skipped_Inverted(confidence, threshold) == confidence > threshold

\* The filter as it would be if it compared with the default threshold instead
\* of the detector's field.
Skipped_Default(confidence, threshold) == confidence < 50

\* if confidence < self.confidence_threshold: continue
Skipped(confidence, threshold) == confidence < threshold

\* The append as it would be after a pass that keeps one type per span: an entry
\* that overlaps an entry of another type is dropped.
AppendMatch_Exclusive(results, type_id, entry) ==
  IF \E k \in 1..Len(results) :
       /\ results[k].type_id # type_id
       /\ \E j \in 1..Len(results[k].matches) :
            /\ results[k].matches[j].start < entry.end
            /\ entry.start < results[k].matches[j].end
  THEN results
  ELSE IF \E k \in 1..Len(results) : results[k].type_id = type_id
  THEN [ k \in 1..Len(results) |->
           IF results[k].type_id = type_id
           THEN [results[k] EXCEPT !.matches = Append(@, entry)] ELSE results[k] ]
  ELSE Append(results, [type_id |-> type_id, matches |-> << entry >>])

\* results[type_id].append(entry): results is a dict, here the sequence of its
\* items [type_id, matches] in insertion order.
AppendMatch(results, type_id, entry) ==
  IF \E k \in 1..Len(results) : results[k].type_id = type_id
  THEN [ k \in 1..Len(results) |->
           IF results[k].type_id = type_id
           THEN [results[k] EXCEPT !.matches = Append(@, entry)] ELSE results[k] ]
  ELSE Append(results, [type_id |-> type_id, matches |-> << entry >>])

\* The inner loop, from the k-th match of type_id on: the dict, or the exception.
RECURSIVE ScanMatches(_, _, _, _, _, _)
ScanMatches(cands, k, type_id, text, threshold, results) ==
  IF k > Len(cands) THEN Return(results)
  ELSE LET c == cands[k] IN
       IF c.v.exc # "none" THEN Raise(c.v.exc)
       ELSE IF Skipped(c.v.val, threshold)
       THEN ScanMatches(cands, k + 1, type_id, text, threshold, results)
       ELSE ScanMatches(cands, k + 1, type_id, text, threshold,
                        AppendMatch(results, type_id,
                                    MatchEntry(type_id, c.m, text, c.v.val)))

\* The outer loop, from the j-th requested type on; cands[type_id] are the
\* candidates of type_id in text.
RECURSIVE ScanTypes(_, _, _, _, _, _)
ScanTypes(info_types, j, text, threshold, cands, results) ==
  IF j > Len(info_types) THEN Return(results)
  ELSE IF info_types[j] \notin TypeIds
  THEN ScanTypes(info_types, j + 1, text, threshold, cands, results)
  ELSE LET r == ScanMatches(cands[info_types[j]], 1, info_types[j], text,
                            threshold, results)
       IN IF r.exc # "none" THEN r
          ELSE ScanTypes(info_types, j + 1, text, threshold, cands, r.val)

\* The validation as it would be if it looked at the first identifier only.
UnknownType_First(info_types) == info_types # <<>> /\ info_types[1] \notin TypeIds

\* info_types given: the first identifier that is no key of the registry raises.
UnknownType(info_types) == \E k \in 1..Len(info_types) : info_types[k] \notin TypeIds

\* The candidates of every registered type in text.
ScanAll(text) == [ type_id \in TypeIds |-> Candidates(type_id, text) ]

\* results = defaultdict(list) as it would be with a key made for every
\* requested type before the scan.
NewResults_Keyed(info_types, previous) ==
  LET ids == SelectSeq(info_types, LAMBDA t : t \in TypeIds)
      first == { k \in 1..Len(ids) : \A h \in 1..(k - 1) : ids[h] # ids[k] }
      RECURSIVE Keys(_)
      Keys(k) == IF k > Len(ids) THEN <<>>
                 ELSE (IF k \in first THEN << [type_id |-> ids[k], matches |-> <<>>] >>
                       ELSE <<>>) \o Keys(k + 1)
  IN Keys(1)

\* results as it would be if the detector kept it from call to call.
NewResults_Kept(info_types, previous) == previous

\* results = defaultdict(list): a local of the call, empty whatever types are
\* requested and whatever mapping (previous) another call of the detector built.
NewResults(info_types, previous) == <<>>

\* detect_sensitive_info(text, info_types) of a detector whose enabled_types
\* iterate in the order enabled and whose confidence_threshold is threshold;
\* cands is ScanAll(text), previous the mapping of another call.
detect_sensitive_info(text, info_types, enabled, threshold, cands, previous) ==
  IF IsBlank(text) THEN Return(<<>>)
  ELSE IF info_types # None /\ UnknownType(info_types) THEN Raise("ValueError")
  ELSE LET types == IF info_types = None THEN enabled ELSE info_types
       IN ScanTypes(types, 1, text, threshold, cands, NewResults(types, previous))

-----------------------------------------------------------------------------
(* The setters                                                             *)

\* set_enabled_types as it would be if it stored each identifier as it checked
\* it: the identifiers before the first invalid one are stored, then it raises.
set_enabled_types_Eager(type_ids, enabled) ==
  IF \E k \in 1..Len(type_ids) : type_ids[k] \notin TypeIds
  THEN LET bad == CHOOSE k \in 1..Len(type_ids) :
                    /\ type_ids[k] \notin TypeIds
                    /\ \A h \in 1..(k - 1) : type_ids[h] \in TypeIds
       IN [exc |-> "ValueError", enabled |-> Range(SubSeq(type_ids, 1, bad - 1))]
  ELSE [exc |-> "none", enabled |-> Range(type_ids)]

\* set_enabled_types(type_ids): every identifier is checked before the field is
\* assigned.  Yields the exception, if any, and the set that is then stored.
set_enabled_types(type_ids, enabled) ==
  IF \E k \in 1..Len(type_ids) : type_ids[k] \notin TypeIds
  THEN [exc |-> "ValueError", enabled |-> enabled]
  ELSE [exc |-> "none", enabled |-> Range(type_ids)]

\* set_confidence_threshold(threshold)
set_confidence_threshold(threshold, current) ==
  IF threshold < 0 \/ threshold > 100
  THEN [exc |-> "ValueError", threshold |-> current]
  ELSE [exc |-> "none", threshold |-> threshold]

\* A set of strings iterates in an order that depends on the interpreter's string
\* hashing.  Two of the orders are modelled: the registry's and its reverse.
Reverse(s) == [ k \in 1..Len(s) |-> s[Len(s) + 1 - k] ]
IterOrders(S) ==
  LET inorder == SelectSeq(TypeOrder, LAMBDA t : t \in S)
  IN { inorder, Reverse(inorder) }

-----------------------------------------------------------------------------
(* The registry's names and the report                                     *)

\* self.patterns[type_id]['name']: 手机号码, 座机号码, 身份证号, 家庭住址, 电子邮箱, 密码, 银行卡号, IP地址
names ==
  [
    phone |-> <<"u624b","u673a","u53f7","u7801">>,
    landline |-> <<"u5ea7","u673a","u53f7","u7801">>,
    id_card |-> <<"u8eab","u4efd","u8bc1","u53f7">>,
    address |-> <<"u5bb6","u5ead","u4f4f","u5740">>,
    email |-> <<"u7535","u5b50","u90ae","u7bb1">>,
    password |-> <<"u5bc6","u7801">>,
    credit_card |-> <<"u94f6","u884c","u5361","u53f7">>,
    ip_address |-> <<"I","P","u5730","u5740">> ]

\* self.patterns[type_id]['description']
descriptions ==
  [
    \* 11位数字，以1开头，第二位是3-9，可能带有+86前缀
    phone |->
      <<"1","1","u4f4d","u6570","u5b57","uff0c","u4ee5","1","u5f00","u5934","uff0c",
        "u7b2c","u4e8c","u4f4d","u662f","3","-","9","uff0c","u53ef","u80fd","u5e26",
        "u6709","+","8","6","u524d","u7f00">>,
    \* 区号(可选)+7-8位数字
    landline |->
      <<"u533a","u53f7","(","u53ef","u9009",")","+","7","-","8","u4f4d","u6570","u5b57">>,
    \* 18位数字，最后一位可能是X
    id_card |->
      <<"1","8","u4f4d","u6570","u5b57","uff0c","u6700","u540e","u4e00","u4f4d","u53ef",
        "u80fd","u662f","X">>,
    \* 包含省市区县、路街道等信息的地址
    address |->
      <<"u5305","u542b","u7701","u5e02","u533a","u53bf","u3001","u8def","u8857","u9053",
        "u7b49","u4fe1","u606f","u7684","u5730","u5740">>,
    \* 标准电子邮箱格式
    email |->
      <<"u6807","u51c6","u7535","u5b50","u90ae","u7bb1","u683c","u5f0f">>,
    \* 密码标识后跟随的6-20位字符
    password |->
      <<"u5bc6","u7801","u6807","u8bc6","u540e","u8ddf","u968f","u7684","6","-","2","0",
        "u4f4d","u5b57","u7b26">>,
    \* 16-19位数字，可能有空格分隔
    credit_card |->
      <<"1","6","-","1","9","u4f4d","u6570","u5b57","uff0c","u53ef","u80fd","u6709",
        "u7a7a","u683c","u5206","u9694">>,
    \* 标准IPv4地址格式
    ip_address |->
      <<"u6807","u51c6","I","P","v","4","u5730","u5740","u683c","u5f0f">> ]

\* "未检测到敏感信息。"
NothingFound ==
  <<"u672a","u68c0","u6d4b","u5230","u654f","u611f","u4fe1","u606f","u3002">>

\* "检测到以下敏感信息：\n"
ReportHeader ==
  <<"u68c0","u6d4b","u5230","u4ee5","u4e0b","u654f","u611f","u4fe1","u606f","uff1a","\n">>

\* "## "
HeadingOpen ==
  <<"#","#"," ">>

\* "（" before the count of a heading
CountOpen ==
  <<"uff08">>

\* "项）" after it
CountClose ==
  <<"u9879","uff09">>

\* ". 值: " after the index of an entry
ValueLabel ==
  <<"."," ","u503c",":"," ">>

\* "置信度: "
ConfidenceLabel ==
  <<"u7f6e","u4fe1","u5ea6",":"," ">>

\* "   上下文: "
ContextLabel ==
  <<" "," "," ","u4e0a","u4e0b","u6587",":"," ">>

\* get_available_info_types as it would be if it listed the enabled types only
get_available_info_types_Enabled(enabled) ==
  LET ids == SelectSeq(TypeOrder, LAMBDA t : t \in enabled)
  IN [ k \in 1..Len(ids) |->
         [ id |-> ids[k], name |-> names[ids[k]], description |-> descriptions[ids[k]] ] ]

\* get_available_info_types() of a detector whose enabled types are enabled: one
\* entry per item of self.patterns, in the dict's order; no field is read.
get_available_info_types(enabled) ==
  [ k \in 1..Len(TypeOrder) |->
      [ id |-> TypeOrder[k], name |-> names[TypeOrder[k]],
        description |-> descriptions[TypeOrder[k]] ] ]

\* str(n) of a natural number
RECURSIVE Str(_)
Str(n) ==
  IF n < 10 THEN << DigitSeq[n + 1] >>
  ELSE Str(n \div 10) \o << DigitSeq[(n % 10) + 1] >>

\* "\n".join(lines)
RECURSIVE Join(_)
Join(lines) ==
  IF lines = <<>> THEN <<>>
  ELSE IF Len(lines) = 1 THEN lines[1]
  ELSE lines[1] \o << "\n" >> \o Join(Tail(lines))

\* confidence_str as it would be without the test confidence < 100
confidence_str_Always(confidence) == ConfidenceLabel \o Str(confidence) \o << "%" >>

\* f"置信度: {confidence}%" if confidence < 100 else ""
confidence_str(confidence) ==
  IF confidence < 100 THEN ConfidenceLabel \o Str(confidence) \o << "%" >> ELSE <<>>

\* the three lines appended for the i-th match of a list
EntryLines(i, match) ==
  << Str(i) \o ValueLabel \o match.value \o << " " >> \o confidence_str(match.confidence),
     ContextLabel \o match.context,
     <<>> >>

\* the lines appended for one item of results: nothing for an empty list, else
\* the heading and the entries
TypeLines(item) ==
  LET RECURSIVE Entries(_)
      Entries(i) == IF i > Len(item.matches) THEN <<>>
                    ELSE EntryLines(i, item.matches[i]) \o Entries(i + 1)
  IN IF item.matches = <<>> THEN <<>>
     ELSE << HeadingOpen \o names[item.type_id] \o CountOpen
               \o Str(Len(item.matches)) \o CountClose >> \o Entries(1)

\* format_results(results): the report, and results as the call leaves it
format_results(results) ==
  LET RECURSIVE Lines(_)
      Lines(k) == IF k > Len(results) THEN <<>>
                  ELSE TypeLines(results[k]) \o Lines(k + 1)
  IN IF results = <<>> THEN [ output |-> NothingFound, results |-> results ]
     ELSE [ output |-> Join(<< ReportHeader >> \o Lines(1)), results |-> results ]

-----------------------------------------------------------------------------
(* The detector and its calls                                              *)

VARIABLES
  text,                  \* the document under scan
  scanned,               \* ScanAll(text): a scan reads nothing but the text, so
                         \* it is made once per document and kept
  enabled_types,         \* self.enabled_types, in its iteration order
  confidence_threshold,  \* self.confidence_threshold
  last,                  \* the last call: its name, arguments and outcome
  prev,                  \* the detect call before the last call, where recorded
  workers,               \* the detect calls of the pool's threads, where running
  scanning,              \* self.scanning of the window
  scans                  \* the scans start_scan has started: the locals its two
                         \* threads share, and where each thread is

vars ==
  << text, scanned, enabled_types, confidence_threshold, last, prev, workers,
     scanning, scans >>

\* the arguments tried
TypeIdArgs ==
  { <<"phone", "credit_card">>, <<"password">>, <<"password", "ssn", "email">>, <<"ssn">> }
ThresholdArgs == { -1, 0, 1, 50, 100, 101 }
InfoTypeArgs ==
  { None, <<"phone", "credit_card", "password">>, <<"phone", "ssn">>,
    <<"phone", "password", "phone">> }

\* A call as recorded: its name, its arguments (type_ids: the list passed to
\* set_enabled_types or as info_types; threshold: the number passed), the two
\* fields as they were when it was made, and what it yielded.
Call(op, type_ids, threshold, ret) ==
  [ op |-> op, type_ids |-> type_ids, threshold |-> threshold,
    pre_enabled |-> enabled_types, pre_threshold |-> confidence_threshold,
    ret |-> ret ]

\* SensitiveInfoDetector(): every type enabled, threshold 50
Init ==
  /\ text \in Texts
  /\ scanned = ScanAll(text)
  /\ enabled_types \in IterOrders(TypeIds)
  /\ confidence_threshold = 50
  /\ last = [ op |-> "__init__", type_ids |-> <<>>, threshold |-> 0,
              pre_enabled |-> <<>>, pre_threshold |-> 0, ret |-> Return(<<>>) ]
  /\ prev = last
  /\ workers = <<>>
  /\ scanning = FALSE
  /\ scans = <<>>

\* detector.set_enabled_types(type_ids)
SetEnabledTypesCall(type_ids) ==
  LET r == set_enabled_types(type_ids, Range(enabled_types)) IN
  /\ IF r.enabled = Range(enabled_types) /\ r.exc # "none"
     THEN UNCHANGED enabled_types
     ELSE enabled_types' \in IterOrders(r.enabled)
  /\ last' = Call("set_enabled_types", type_ids, 0, [exc |-> r.exc, val |-> <<>>])
  /\ UNCHANGED << text, scanned, confidence_threshold >>

\* detector.set_confidence_threshold(threshold)
SetConfidenceThresholdCall(threshold) ==
  LET r == set_confidence_threshold(threshold, confidence_threshold) IN
  /\ confidence_threshold' = r.threshold
  /\ last' = Call("set_confidence_threshold", <<>>, threshold, [exc |-> r.exc, val |-> <<>>])
  /\ UNCHANGED << text, scanned, enabled_types >>

SetEnabledTypes ==
  \E type_ids \in TypeIdArgs :
    SetEnabledTypesCall(type_ids) /\ UNCHANGED << prev, workers, scanning, scans >>

SetConfidenceThreshold ==
  \E threshold \in ThresholdArgs :
    SetConfidenceThresholdCall(threshold) /\ UNCHANGED << prev, workers, scanning, scans >>

\* the mapping the call before built, if it was a detect call that returned
PreviousMapping ==
  IF last.op = "detect_sensitive_info" /\ last.ret.exc = "none" THEN last.ret.val ELSE <<>>

\* detector.detect_sensitive_info(text, info_types)
DetectCall(info_types) ==
  /\ last' = Call("detect_sensitive_info", info_types, 0,
                  detect_sensitive_info(text, info_types, enabled_types,
                                        confidence_threshold, scanned, PreviousMapping))
  /\ UNCHANGED << text, scanned, enabled_types, confidence_threshold >>

Detect ==
  \E info_types \in InfoTypeArgs : DetectCall(info_types) /\ UNCHANGED << prev, workers, scanning, scans >>

\* detector.get_available_info_types()
GetAvailableInfoTypes ==
  /\ last' = Call("get_available_info_types", <<>>, 0,
                  Return(get_available_info_types(Range(enabled_types))))
  /\ UNCHANGED << text, scanned, enabled_types, confidence_threshold, prev, workers,
       scanning, scans >>

\* detector.format_results(results), results being the mapping the detect call
\* before returned; the call is recorded with its argument.
FormatResults ==
  /\ last.op = "detect_sensitive_info" /\ last.ret.exc = "none"
  /\ last' = [ op |-> "format_results", type_ids |-> <<>>, threshold |-> 0,
               pre_enabled |-> enabled_types, pre_threshold |-> confidence_threshold,
               ret |-> Return(format_results(last.ret.val)), results |-> last.ret.val ]
  /\ UNCHANGED << text, scanned, enabled_types, confidence_threshold, prev, workers,
       scanning, scans >>

Next ==
  \/ SetEnabledTypes
  \/ SetConfidenceThreshold
  \/ Detect
  \/ GetAvailableInfoTypes
  \/ FormatResults

Spec == Init /\ [][Next]_vars

-----------------------------------------------------------------------------
(* Two detect calls on one document                                        *)

\* The documents scanned twice: two numbers of one type, several types in one
\* text, an identity number that is also a card number, a card number that
\* makes the scan raise, low-scoring matches, a blank text.
PairTexts ==
  { Mobile \o <<" ">> \o Placeholder,
    KwShouJi \o Mobile,
    KwMiMa \o FullColon \o Secret \o <<" ">> \o Mobile \o <<" ">>
      \o Grouped(CardStem \o <<1, 1>>, <<" ">>),
    Num(<<1,1,0,1,0,1,1,9,9,0,0,1,0,1,1,2,3,4>>),
    Grouped(CardStem \o <<1, 1>>, <<" ">>) \o <<"\n">>,
    Grouped(CardStem \o <<1, 2>>, <<" ">>),
    <<"t","e","s","t","@","a","b",".","c","n">>,
    <<"1","2","7",".","0",".","0",".","1">>,
    <<" ">> }

\* the detect call made before the last call
Earlier == IF last.op = "detect_sensitive_info" THEN last ELSE prev

InitPair ==
  /\ text \in PairTexts
  /\ scanned = ScanAll(text)
  /\ enabled_types \in IterOrders(TypeIds)
  /\ confidence_threshold = 50
  /\ last = [ op |-> "__init__", type_ids |-> <<>>, threshold |-> 0,
              pre_enabled |-> <<>>, pre_threshold |-> 0, ret |-> Return(<<>>) ]
  /\ prev = last
  /\ workers = <<>>
  /\ scanning = FALSE
  /\ scans = <<>>

PairSetEnabledTypes ==
  \E type_ids \in TypeIdArgs :
    SetEnabledTypesCall(type_ids) /\ prev' = Earlier /\ UNCHANGED << workers, scanning, scans >>

PairSetConfidenceThreshold ==
  \E threshold \in ThresholdArgs :
    SetConfidenceThresholdCall(threshold) /\ prev' = Earlier /\ UNCHANGED << workers, scanning, scans >>

PairDetect ==
  \E info_types \in InfoTypeArgs :
    DetectCall(info_types) /\ prev' = Earlier /\ UNCHANGED << workers, scanning, scans >>

NextPair == PairSetEnabledTypes \/ PairSetConfidenceThreshold \/ PairDetect

SpecPair == InitPair /\ [][NextPair]_vars

-----------------------------------------------------------------------------
(* _get_context on its own                                                 *)

\* The longest text _get_context is given
MaxContextLen == 45

\* Texts of pairwise different characters, so that a slice shows where it was
\* taken: shorter than one context, just longer, and longer than two contexts
\* and a match
ContextTexts ==
  LET Alphabet == << "a","b","c","d","e","f","g","h","i","j","k","l","m",
                     "n","o","p","q","r","s","t","u","v","w","x","y","z",
                     "A","B","C","D","E","F","G","H","I","J","K","L","M",
                     "N","O","P","Q","R","S","T","U","V","W","X","Y","Z" >>
  IN { SubSeq(Alphabet, 1, n) :
         n \in { 0, 1, ContextSize, ContextSize + 1, MaxContextLen } }

InitContext ==
  /\ text \in ContextTexts
  /\ scanned = <<>>
  /\ enabled_types = TypeOrder
  /\ confidence_threshold = 50
  /\ last = [ op |-> "__init__", start |-> 0, end |-> 0, ret |-> Return(<<>>) ]
  /\ prev = last
  /\ workers = <<>>
  /\ scanning = FALSE
  /\ scans = <<>>

\* self._get_context(text, start, end) with 0 <= start <= end <= len(text)
GetContext ==
  \E start \in 0..Len(text) : \E end \in start..Len(text) :
    /\ last' = [ op |-> "_get_context", start |-> start, end |-> end,
                 ret |-> Return(_get_context(text, start, end, ContextSize)) ]
    /\ UNCHANGED << text, scanned, enabled_types, confidence_threshold, prev, workers,
       scanning, scans >>

NextContext == GetContext

SpecContext == InitContext /\ [][NextContext]_vars

-----------------------------------------------------------------------------
(* The thread pool of cli_main: detect calls on one detector               *)

\* The threads of the pool that run process_file at a time
NumWorkers == 2
Workers == 1..NumWorkers

\* The texts process_image hands to process_file: several types in one text,
\* two matches of one type, a card number before a line break, a blank
FileTexts ==
  { KwMiMa \o FullColon \o Secret \o <<" ">> \o Mobile \o <<" ">>
      \o Grouped(CardStem \o <<1, 1>>, <<" ">>),
    Mobile \o <<" ">> \o Placeholder,
    Grouped(CardStem \o <<1, 1>>, <<" ">>) \o <<"\n">>,
    <<" ">> }

\* selected_types: available_types, or the valid identifiers of --types
SelectedTypes == { TypeOrder, <<"password", "phone", "credit_card">> }

\* a call of the worker is between its first and its last statement
Running(worker) == worker.pc \in { "types", "matches" }

\* main up to executor.submit: one detector as constructed, one selected_types
\* for every file, a file for each thread; no thread has called detect yet.
\* scanned[w] holds the candidates of the text of thread w; prev is the
\* mapping a call of the detector appended to last.
InitConcurrent ==
  /\ text = <<>>
  /\ enabled_types = TypeOrder
  /\ confidence_threshold = 50
  /\ \E selected_types \in SelectedTypes : \E files \in [Workers -> FileTexts] :
       /\ workers = [ w \in Workers |->
                        [ pc |-> "call", text |-> files[w], info_types |-> selected_types,
                          types |-> <<>>, j |-> 0, k |-> 0, results |-> <<>>,
                          pre_enabled |-> <<>>, pre_threshold |-> 0,
                          overlapped |-> FALSE, ret |-> Return(<<>>) ] ]
       /\ scanned = [ w \in Workers |-> ScanAll(files[w]) ]
  /\ last = [ op |-> "__init__", type_ids |-> <<>>, threshold |-> 0,
              pre_enabled |-> <<>>, pre_threshold |-> 0, ret |-> Return(<<>>) ]
  /\ prev = <<>>
  /\ scanning = FALSE
  /\ scans = <<>>

\* detect_sensitive_info up to results = defaultdict(list) (lines 323-336) in
\* thread w; overlapped marks the calls in progress at the same time.
Begin(w) ==
  LET self == workers[w]
      others == { o \in Workers : o # w /\ Running(workers[o]) }
      marked == [ o \in Workers |->
                    IF o \in others THEN [workers[o] EXCEPT !.overlapped = TRUE]
                    ELSE workers[o] ]
      entered == [self EXCEPT !.pre_enabled = enabled_types,
                              !.pre_threshold = confidence_threshold,
                              !.overlapped = (others # {})]
  IN /\ self.pc = "call"
     /\ workers' =
          [marked EXCEPT ![w] =
             IF IsBlank(self.text)
             THEN [entered EXCEPT !.pc = "done", !.ret = Return(<<>>)]
             ELSE IF self.info_types # None /\ UnknownType(self.info_types)
             THEN [entered EXCEPT !.pc = "done", !.ret = Raise("ValueError")]
             ELSE LET types == IF self.info_types = None THEN enabled_types
                               ELSE self.info_types
                  IN [entered EXCEPT !.pc = "types", !.types = types, !.j = 1,
                                     !.results = NewResults(types, prev)]]
     /\ UNCHANGED << text, scanned, enabled_types, confidence_threshold, last, prev,
                   scanning, scans >>

\* for type_id in info_types (lines 339-346): the next type and its finditer,
\* or return dict(results) after the last type (line 377)
NextType(w) ==
  LET self == workers[w]
  IN /\ self.pc = "types"
     /\ workers' =
          [workers EXCEPT ![w] =
             IF self.j > Len(self.types)
             THEN [self EXCEPT !.pc = "done", !.ret = Return(self.results)]
             ELSE IF self.types[self.j] \notin TypeIds
             THEN [self EXCEPT !.j = self.j + 1]
             ELSE [self EXCEPT !.pc = "matches", !.k = 1]]
     /\ UNCHANGED << text, scanned, enabled_types, confidence_threshold, last, prev,
                   scanning, scans >>

\* for match in matches (lines 348-375): one match validated, compared with
\* self.confidence_threshold and appended; after the last match the next type
NextMatch(w) ==
  LET self == workers[w]
      type_id == self.types[self.j]
      cands == scanned[w][type_id]
  IN /\ self.pc = "matches"
     /\ IF self.k > Len(cands)
        THEN /\ workers' = [workers EXCEPT ![w] = [self EXCEPT !.pc = "types", !.j = self.j + 1]]
             /\ prev' = prev
        ELSE LET c == cands[self.k] IN
             IF c.v.exc # "none"
             THEN /\ workers' = [workers EXCEPT ![w] =
                                   [self EXCEPT !.pc = "done", !.ret = Raise(c.v.exc)]]
                  /\ prev' = prev
             ELSE IF Skipped(c.v.val, confidence_threshold)
             THEN /\ workers' = [workers EXCEPT ![w] = [self EXCEPT !.k = self.k + 1]]
                  /\ prev' = prev
             ELSE LET results == AppendMatch(self.results, type_id,
                                             MatchEntry(type_id, c.m, self.text, c.v.val))
                  IN /\ workers' = [workers EXCEPT ![w] =
                                      [self EXCEPT !.k = self.k + 1, !.results = results]]
                     /\ prev' = results
     /\ UNCHANGED << text, scanned, enabled_types, confidence_threshold, last,
                   scanning, scans >>

NextConcurrent == \E w \in Workers : Begin(w) \/ NextType(w) \/ NextMatch(w)

SpecConcurrent == InitConcurrent /\ [][NextConcurrent]_vars

-----------------------------------------------------------------------------
(* The window of ui.py: start_scan, its two threads, stop_scan             *)

\* The start_scan calls followed
MaxScans == 2

\* What the list box holds when start_scan is called, each file as the text
\* process_image reads from it: one file, or two files of which the first
\* makes detect_sensitive_info raise
ListedFiles ==
  { << Mobile \o <<" ">> \o Placeholder >>,
    << Grouped(CardStem \o <<1, 1>>, <<" ">>) \o <<"\n">>, KwShouJi \o Mobile >> }

\* UI(root): a detector as constructed, not scanning.
\* scanned[file] holds the candidates of the file's text; last is the last
\* call the main thread made, and whether it has returned.
InitUI ==
  /\ text = <<>>
  /\ scanned = [ file \in UNION { Range(files) : files \in ListedFiles } |-> ScanAll(file) ]
  /\ enabled_types = TypeOrder
  /\ confidence_threshold = 50
  /\ last = [ op |-> "__init__", returned |-> TRUE ]
  /\ prev = last
  /\ workers = <<>>
  /\ scanning = FALSE
  /\ scans = <<>>

\* start_scan: returns at once while self.scanning or with no file listed;
\* every type is ticked.  It sets self.scanning, makes result_queue,
\* processed_count and all_results and starts the worker and the progress
\* thread (lines 218-398).
start_scan ==
  /\ last.returned
  /\ ~scanning
  /\ Len(scans) < MaxScans
  /\ \E files \in ListedFiles :
       /\ files # <<>>
       /\ scans' = Append(scans,
            [ files |-> files, selected_types |-> TypeOrder, result_queue |-> <<>>,
              processed_count |-> 0, all_results |-> <<>>,
              worker |-> "for", i |-> 1, progress |-> "while",
              reported |-> FALSE, report |-> <<>>,
              stopped |-> FALSE, overtaken |-> FALSE ])
  /\ scanning' = TRUE
  /\ last' = [ op |-> "start_scan", returned |-> TRUE ]
  /\ UNCHANGED << text, scanned, enabled_types, confidence_threshold, prev, workers >>

\* stop_scan, lines 402-404: clears self.scanning; the joins follow.
\* stopped marks the scans whose threads had not ended.
stop_scan ==
  /\ last.returned
  /\ scanning
  /\ scanning' = FALSE
  /\ last' = [ op |-> "stop_scan", returned |-> FALSE ]
  /\ scans' = [ s \in 1..Len(scans) |->
                  IF scans[s].worker # "done" \/ scans[s].progress # "done"
                  THEN [scans[s] EXCEPT !.stopped = TRUE] ELSE scans[s] ]
  /\ UNCHANGED << text, scanned, enabled_types, confidence_threshold, prev, workers >>

\* stop_scan, lines 407-423: self.worker_thread.join(timeout=1.0) returns when
\* the worker of the last scan has ended, or after 1 second, which a worker can
\* outlast only inside process_image and detect_sensitive_info; the join of the
\* progress thread ends likewise, and the buttons are enabled.
StopScanReturn ==
  /\ last = [ op |-> "stop_scan", returned |-> FALSE ]
  /\ scans[Len(scans)].worker \in { "done", "try" }
  /\ last' = [ op |-> "stop_scan", returned |-> TRUE ]
  /\ UNCHANGED << text, scanned, enabled_types, confidence_threshold, prev, workers,
                  scanning, scans >>

\* worker, lines 355-364: the next file, unless self.scanning is cleared; the
\* progress item is put.  overtaken marks a worker that takes a file when a
\* later start_scan has started its own.
WorkerNextFile ==
  \E s \in 1..Len(scans) :
  LET scan == scans[s]
  IN /\ scan.worker = "for"
     /\ scans' =
          [scans EXCEPT ![s] =
             IF scan.i > Len(scan.files) \/ ~scanning
             THEN [scan EXCEPT !.worker = "done"]
             ELSE [scan EXCEPT !.worker = "try",
                               !.result_queue =
                                  Append(@, [type |-> "progress", index |-> scan.i]),
                               !.overtaken = @ \/ s < Len(scans)]]
     /\ UNCHANGED << text, scanned, enabled_types, confidence_threshold, last, prev,
                     workers, scanning >>

\* worker, lines 366-385: the file's text is scanned and the mapping, or the
\* error, is put
WorkerProcess ==
  \E s \in 1..Len(scans) :
  LET scan == scans[s]
      file == scan.files[scan.i]
      file_results == detect_sensitive_info(file, scan.selected_types, enabled_types,
                                            confidence_threshold, scanned[file], <<>>)
  IN /\ scan.worker = "try"
     /\ scans' =
          [scans EXCEPT ![s] =
             [scan EXCEPT !.worker = "count",
                          !.result_queue =
                             Append(@, IF file_results.exc = "none"
                                       THEN [type |-> "result", index |-> scan.i,
                                             results |-> file_results.val]
                                       ELSE [type |-> "error", index |-> scan.i,
                                             error |-> file_results.exc])]]
     /\ UNCHANGED << text, scanned, enabled_types, confidence_threshold, last, prev,
                     workers, scanning >>

\* worker, line 388: processed_count[0] += 1
WorkerCount ==
  \E s \in 1..Len(scans) :
  LET scan == scans[s]
  IN /\ scan.worker = "count"
     /\ scans' = [scans EXCEPT ![s] =
                    [scan EXCEPT !.worker = "for", !.i = @ + 1, !.processed_count = @ + 1]]
     /\ UNCHANGED << text, scanned, enabled_types, confidence_threshold, last, prev,
                     workers, scanning >>

\* update_progress, line 274: while processed_count[0] < total_files and
\* self.scanning
ProgressWhile ==
  \E s \in 1..Len(scans) :
  LET scan == scans[s]
  IN /\ scan.progress = "while"
     /\ scans' = [scans EXCEPT ![s] =
                    [scan EXCEPT !.progress =
                       IF scan.processed_count < Len(scan.files) /\ scanning
                       THEN "queue" ELSE "report"]]
     /\ UNCHANGED << text, scanned, enabled_types, confidence_threshold, last, prev,
                     workers, scanning >>

\* update_progress, lines 280-303: one item is taken from the queue, a result
\* or an error is appended to all_results; with the queue empty the thread
\* sleeps and tests the loop's condition again
ProgressGet ==
  \E s \in 1..Len(scans) :
  LET scan == scans[s]
      result == Head(scan.result_queue)
  IN /\ scan.progress = "queue"
     /\ scans' =
          [scans EXCEPT ![s] =
             IF scan.result_queue = <<>> THEN [scan EXCEPT !.progress = "while"]
             ELSE [scan EXCEPT !.result_queue = Tail(@),
                               !.all_results =
                                  IF result.type = "progress" THEN @
                                  ELSE Append(@, [is_error |-> result.type = "error",
                                                  file |-> result.index])]]
     /\ UNCHANGED << text, scanned, enabled_types, confidence_threshold, last, prev,
                     workers, scanning >>

\* update_progress, lines 306-333: the report is written from all_results if
\* self.scanning is still set
ProgressReport ==
  \E s \in 1..Len(scans) :
  LET scan == scans[s]
  IN /\ scan.progress = "report"
     /\ scans' = [scans EXCEPT ![s] =
                    IF scanning
                    THEN [scan EXCEPT !.progress = "reset", !.reported = TRUE,
                                      !.report = scan.all_results]
                    ELSE [scan EXCEPT !.progress = "reset"]]
     /\ UNCHANGED << text, scanned, enabled_types, confidence_threshold, last, prev,
                     workers, scanning >>

\* update_progress, lines 336-351: the buttons are enabled, self.scanning = False
ProgressReset ==
  \E s \in 1..Len(scans) :
  LET scan == scans[s]
  IN /\ scan.progress = "reset"
     /\ scans' = [scans EXCEPT ![s] = [scan EXCEPT !.progress = "done"]]
     /\ scanning' = FALSE
     /\ UNCHANGED << text, scanned, enabled_types, confidence_threshold, last, prev,
                     workers >>

NextUI ==
  \/ start_scan \/ stop_scan \/ StopScanReturn
  \/ WorkerNextFile \/ WorkerProcess \/ WorkerCount
  \/ ProgressWhile \/ ProgressGet \/ ProgressReport \/ ProgressReset

SpecUI == InitUI /\ [][NextUI]_vars

-----------------------------------------------------------------------------
(* What the last call shows                                                *)

Detected == last.op = "detect_sensitive_info"
Returned == last.ret.exc = "none"
\* the types the last detect call scanned for
Requested == IF last.type_ids = None THEN enabled_types ELSE last.type_ids
\* the matches the returned mapping holds for type_id
MatchesOf(type_id) ==
  IF \E k \in 1..Len(last.ret.val) : last.ret.val[k].type_id = type_id
  THEN last.ret.val[CHOOSE k \in 1..Len(last.ret.val) :
                      last.ret.val[k].type_id = type_id].matches
  ELSE <<>>
\* every <<type_id, match>> of the returned mapping
AllMatches ==
  UNION { { <<last.ret.val[k].type_id, last.ret.val[k].matches[j]>> :
              j \in 1..Len(last.ret.val[k].matches) } : k \in 1..Len(last.ret.val) }

-----------------------------------------------------------------------------
(* Properties of detect_sensitive_info and the setters                     *)

\* an identifier of ids is no key of the registry
Unregistered(ids) == \E k \in 1..Len(ids) : ids[k] \notin TypeIds
\* the document is empty or holds whitespace only
OnlyWhitespace == \A k \in 1..Len(text) : text[k] \in {" ", "\n", "\t"}
\* kw lies wholly inside text[max(0, s - 20) : min(len(text), e + 20)]
InWindow(kw, s, e) ==
  \E a \in 0..Len(text) :
    /\ a >= s - 20
    /\ a + Len(kw) <= e + 20
    /\ a + Len(kw) <= Len(text)
    /\ Slice(text, a, a + Len(kw)) = kw
\* 手机, 电话, 联系, 拨打, 号码
NamedPhoneWords ==
  { <<"u624b","u673a">>, <<"u7535","u8bdd">>, <<"u8054","u7cfb">>,
    <<"u62e8","u6253">>, <<"u53f7","u7801">> }
PhoneWordInWindow(s, e) == \E kw \in NamedPhoneWords : InWindow(kw, s, e)
\* n stands in the document at offset a with no digit on either side
StandsAt(n, a) ==
  /\ a + Len(n) <= Len(text)
  /\ Slice(text, a, a + Len(n)) = n
  /\ a = 0 \/ text[a] \notin Digit
  /\ a + Len(n) = Len(text) \/ text[a + Len(n) + 1] \notin Digit

\* C1: every match of a mapping that detect_sensitive_info returns has a
\* confidence c with confidence_threshold <= c <= 100, the threshold being the
\* detector's when the call is made, whether the enabled types are scanned or
\* an explicit info_types list.
C1_ConfidenceWithinThreshold ==
  (Detected /\ Returned) =>
    \A p \in AllMatches :
      /\ p[2].confidence >= last.pre_threshold
      /\ p[2].confidence >= confidence_threshold
      /\ p[2].confidence <= 100

\* a call with an explicit list, at a threshold the setter raised to 100, that
\* returns a match
C1_Witness ==
  /\ Detected /\ Returned
  /\ last.type_ids # None
  /\ confidence_threshold = 100
  /\ AllMatches # {}

\* C2: for every text and every list of registered types detect_sensitive_info
\* returns a mapping and does not raise, and every validator yields an integer
\* in 0..100 for every match of its own pattern.
C2_NeverRaises ==
  (Detected /\ ~Unregistered(Requested)) =>
    /\ Returned
    /\ \A j \in 1..Len(Requested) :
         OnlyWhitespace \/
         \A k \in 1..Len(scanned[Requested[j]]) :
           /\ scanned[Requested[j]][k].v.exc = "none"
           /\ scanned[Requested[j]][k].v.val \in 0..100

\* C3 as stated: for every text, blank or not, a call whose info_types holds an
\* unregistered identifier raises the unknown-type error.
C3_UnknownTypeRaisesOnEveryText ==
  (Detected /\ last.type_ids # None /\ Unregistered(last.type_ids)) =>
    last.ret = Raise("ValueError")

\* C3: for every text that is neither empty nor whitespace only, and every
\* threshold, a call whose info_types holds an unregistered identifier raises
\* the unknown-type error and returns no mapping.
C3_UnknownTypeRaises ==
  (Detected /\ last.type_ids # None /\ Unregistered(last.type_ids) /\ ~OnlyWhitespace) =>
    last.ret = Raise("ValueError")

\* a document with a mobile number, scanned for phone and "ssn" at threshold 0:
\* the call raised
C3_Witness ==
  /\ Detected
  /\ text = KwShouJi \o Mobile
  /\ last.type_ids = <<"phone", "ssn">>
  /\ confidence_threshold = 0
  /\ last.ret.exc = "ValueError"

\* C4: a mobile number written with the country code, +86 or 86, and no digit
\* on either side is returned as a phone match when phone is scanned for at the
\* default threshold.
C4_CountryCodeFound ==
  (Detected /\ ~Unregistered(Requested) /\ "phone" \in Range(Requested)
     /\ confidence_threshold = 50) =>
    \A n \in { <<"+","8","6">> \o Mobile, <<"8","6">> \o Mobile } :
      \A a \in 0..Len(text) :
        StandsAt(n, a) =>
          /\ Returned
          /\ \E k \in 1..Len(MatchesOf("phone")) :
               /\ MatchesOf("phone")[k].start >= a
               /\ MatchesOf("phone")[k].end = a + Len(n)

\* the matches of 13800138000 with no phone keyword in the window
BarePlaceholders ==
  { k \in 1..Len(scanned.phone) :
      /\ Slice(text, scanned.phone[k].m.start, scanned.phone[k].m.end) = Placeholder
      /\ ~PhoneWordInWindow(scanned.phone[k].m.start, scanned.phone[k].m.end) }
\* the returned mapping holds the k-th phone match of the document
PhoneReturned(k) ==
  \E j \in 1..Len(MatchesOf("phone")) :
    MatchesOf("phone")[j].start = scanned.phone[k].m.start

\* C5 as stated: 13800138000 with no phone keyword in its window has confidence
\* 0 and is in no returned mapping at any threshold from 0 to 50.
C5_PlaceholderExcludedFromZero ==
  \A k \in BarePlaceholders :
    /\ scanned.phone[k].v = Return(0)
    /\ (Detected /\ Returned /\ confidence_threshold \in 0..50) => ~PhoneReturned(k)

\* C5: 13800138000 with no phone keyword in its window has confidence 0 and is
\* in no returned mapping at any threshold from 1 to 50.
C5_PlaceholderExcluded ==
  \A k \in BarePlaceholders :
    /\ scanned.phone[k].v = Return(0)
    /\ (Detected /\ Returned /\ confidence_threshold \in 1..50) => ~PhoneReturned(k)

\* the bare placeholder scanned for every enabled type at threshold 1
C5_Witness ==
  /\ text = Placeholder
  /\ BarePlaceholders = {1}
  /\ Detected /\ Returned
  /\ last.type_ids = None /\ "phone" \in Range(enabled_types)
  /\ confidence_threshold = 1
  /\ last.ret.val = <<>>

\* the digits of s
DigitsOf(s) == SelectSeq(s, LAMBDA c : c \in Digit)
\* 银行卡, 信用卡, 储蓄卡, 卡号, 账号
NamedCardWords ==
  { <<"u94f6","u884c","u5361">>, <<"u4fe1","u7528","u5361">>, <<"u50a8","u84c4","u5361">>,
    <<"u5361","u53f7">>, <<"u8d26","u53f7">> }
\* every second digit from the right doubled, 9 taken off a double above 9
LuhnDivisible(ds) ==
  LET n == Len(ds)
      RECURSIVE Sum(_)
      Sum(k) == IF k > n THEN 0
                ELSE LET d == DigitVal(ds[k])
                     IN (IF (n - k) % 2 = 1
                         THEN (IF 2 * d > 9 THEN 2 * d - 9 ELSE 2 * d) ELSE d) + Sum(k + 1)
  IN Sum(1) % 10 = 0

\* C6: a credit_card match with 16 to 19 digits and no card keyword in its
\* window has confidence 80 when the Luhn sum of its digits is divisible by 10
\* and 0 otherwise; "4111 1111 1111 1111" is returned at threshold 50 and
\* "4111 1111 1111 1112" is not.
C6_LuhnDecides ==
  /\ \A k \in 1..Len(scanned.credit_card) :
       LET c == scanned.credit_card[k]
           ds == DigitsOf(Slice(text, c.m.start, c.m.end))
       IN (/\ Detected /\ "credit_card" \in Range(Requested)
           /\ Len(ds) \in 16..19
           /\ \A kw \in NamedCardWords : ~InWindow(kw, c.m.start, c.m.end))
          => c.v = Return(IF LuhnDivisible(ds) THEN 80 ELSE 0)
  /\ (/\ Detected /\ ~Unregistered(Requested) /\ "credit_card" \in Range(Requested)
      /\ confidence_threshold = 50)
     => /\ \A a \in 0..Len(text) :
             StandsAt(Grouped(CardStem \o <<1, 1>>, <<" ">>), a) =>
               /\ Returned
               /\ \E j \in 1..Len(MatchesOf("credit_card")) :
                    MatchesOf("credit_card")[j].start = a
        /\ text = Grouped(CardStem \o <<1, 2>>, <<" ">>) => last.ret = Return(<<>>)

\* the label, the separator and the whitespace of a password match end at s
LabelEndsAt(s) ==
  \E label \in { <<"u5bc6","u7801">>, <<"p","a","s","s","w","o","r","d">>, <<"p","w","d">> } :
    \E w \in 0..s :
      LET a == s - w - 1 - Len(label) IN
      /\ a >= 0
      /\ ToLower(Slice(text, a, a + Len(label))) = label
      /\ text[a + Len(label) + 1] \in {":", "uff1a"}
      /\ \A k \in (a + Len(label) + 2)..s : text[k] \in {" ", "\n", "\t"}

\* C7: for every match of a returned mapping text[start:end] = value; a
\* password match has the credential alone as its value, its range begins
\* after the label, the separator and the whitespace; "密码：Admin@123456"
\* yields the value "Admin@123456" with start 3 and end 15.
C7_OffsetsDelimitValue ==
  (Detected /\ Returned) =>
    /\ \A p \in AllMatches :
         /\ 0 <= p[2].start /\ p[2].start <= p[2].end /\ p[2].end <= Len(text)
         /\ Slice(text, p[2].start, p[2].end) = p[2].value
         /\ p[1] = "password" =>
              /\ Len(p[2].value) \in 6..20
              /\ \A k \in 1..Len(p[2].value) :
                   p[2].value[k] \in AlNum \cup {"@","#","$","%","^","&","*"}
              /\ LabelEndsAt(p[2].start)
    /\ (text = KwMiMa \o FullColon \o Secret /\ "password" \in Range(Requested)) =>
         /\ Len(MatchesOf("password")) = 1
         /\ MatchesOf("password")[1].value = Secret
         /\ MatchesOf("password")[1].start = 3
         /\ MatchesOf("password")[1].end = 15

\* "密码：Admin@123456" scanned for every enabled type: one password match
C7_Witness ==
  /\ text = KwMiMa \o FullColon \o Secret
  /\ Detected /\ Returned
  /\ last.type_ids = None
  /\ Len(MatchesOf("password")) = 1
  /\ MatchesOf("password")[1].value = Secret

\* 1[3-9] and nine more digits
ValidMobile(ds) ==
  /\ Len(ds) = 11
  /\ \A k \in 1..11 : ds[k] \in Digit
  /\ ds[1] = "1"
  /\ DigitVal(ds[2]) \in 3..9
\* 12345678910, 13800138000, 13912345678
NamedPlaceholders ==
  { Num(<<1,2,3,4,5,6,7,8,9,1,0>>), Num(<<1,3,8,0,0,1,3,8,0,0,0>>),
    Num(<<1,3,9,1,2,3,4,5,6,7,8>>) }

\* C8: a phone match that is a valid mobile number and no placeholder has
\* confidence 100 when one of 手机, 电话, 联系, 拨打, 号码 lies wholly inside
\* text[max(0, start - 20) : min(len(text), end + 20)] and 80 otherwise;
\* "手机号码13812345678" scores 100 and "13812345678" scores 80.
C8_KeywordInWindowBoosts ==
  Detected =>
    /\ \A k \in 1..Len(scanned.phone) :
         LET c == scanned.phone[k]
             number == Slice(text, c.m.start, c.m.end)
         IN (ValidMobile(number) /\ number \notin NamedPlaceholders) =>
              c.v = Return(IF PhoneWordInWindow(c.m.start, c.m.end) THEN 100 ELSE 80)
    /\ text = KwShouJi \o KwHaoMa \o Mobile =>
         /\ Len(scanned.phone) = 1 /\ scanned.phone[1].v = Return(100)
    /\ text = Mobile =>
         /\ Len(scanned.phone) = 1 /\ scanned.phone[1].v = Return(80)
    /\ (Returned /\ "phone" \in Range(Requested)) =>
         \A j \in 1..Len(MatchesOf("phone")) :
           LET e == MatchesOf("phone")[j] IN
           (ValidMobile(e.value) /\ e.value \notin NamedPlaceholders) =>
             e.confidence = IF PhoneWordInWindow(e.start, e.end) THEN 100 ELSE 80

\* the number, 18 filler characters, then 号码 ending where the window ends:
\* the match is returned with confidence 100
C8_Witness ==
  /\ text = Mobile \o Fill(18) \o KwHaoMa
  /\ Detected /\ Returned
  /\ Len(MatchesOf("phone")) = 1
  /\ MatchesOf("phone")[1].confidence = 100

\* C9: after any setter calls enabled_types holds registered identifiers only
\* and 0 <= confidence_threshold <= 100; a call with an unregistered identifier
\* anywhere in its list, or with a threshold outside 0..100, raises and leaves
\* both fields as they were.
C9_SettersKeepConfigValid ==
  /\ Range(enabled_types) \subseteq TypeIds
  /\ Cardinality(TypeIds) = 8
  /\ confidence_threshold \in 0..100
  /\ last.op = "set_enabled_types" =>
       /\ last.ret.exc # "none" <=> Unregistered(last.type_ids)
       /\ last.ret.exc # "none" =>
            /\ enabled_types = last.pre_enabled
            /\ confidence_threshold = last.pre_threshold
       /\ last.ret.exc = "none" =>
            /\ Range(enabled_types) = Range(last.type_ids)
            /\ confidence_threshold = last.pre_threshold
  /\ last.op = "set_confidence_threshold" =>
       /\ last.ret.exc # "none" <=> last.threshold \notin 0..100
       /\ last.ret.exc # "none" =>
            /\ enabled_types = last.pre_enabled
            /\ confidence_threshold = last.pre_threshold
       /\ last.ret.exc = "none" =>
            /\ enabled_types = last.pre_enabled
            /\ confidence_threshold = last.threshold

\* phone and credit_card enabled, threshold 100, then
\* set_enabled_types(["password", "ssn", "email"]) raised
C9_Witness ==
  /\ last.op = "set_enabled_types"
  /\ last.type_ids = <<"password", "ssn", "email">>
  /\ last.ret.exc = "ValueError"
  /\ Range(enabled_types) = {"phone", "credit_card"}
  /\ confidence_threshold = 100

\* C10: on a text that is empty or whitespace only detect_sensitive_info
\* returns the empty mapping and does not raise, whatever is enabled or
\* requested and whatever the threshold.
C10_BlankTextEmptyMapping ==
  (Detected /\ OnlyWhitespace) => last.ret = Return(<<>>)

\* " \n\t" scanned with password alone enabled at threshold 0
C10_Witness ==
  /\ text = <<" ", "\n", "\t">>
  /\ Detected
  /\ last.type_ids = None
  /\ Range(enabled_types) = {"password"}
  /\ confidence_threshold = 0
  /\ last.ret = Return(<<>>)

-----------------------------------------------------------------------------
(* Properties of the returned mapping                                      *)

\* the keys of the mapping the last detect call returned, in its order
Keys == [ k \in 1..Len(last.ret.val) |-> last.ret.val[k].type_id ]
\* a match of type_id in the document scores at least the threshold
Accepted(type_id) ==
  \E k \in 1..Len(scanned[type_id]) : scanned[type_id][k].v.val >= confidence_threshold

\* C11: every key of a returned mapping is a requested type whose list holds at
\* least one match; a type with no match at or above the threshold is no key.
C11_NoEmptyLists ==
  (Detected /\ Returned) =>
    /\ \A k \in 1..Len(Keys) :
         /\ Keys[k] \in Range(Requested) \cap TypeIds
         /\ Len(last.ret.val[k].matches) >= 1
         /\ \A h \in 1..(k - 1) : Keys[h] # Keys[k]
    /\ \A type_id \in TypeIds :
         (OnlyWhitespace \/ ~Accepted(type_id)) => type_id \notin Range(Keys)

\* a Luhn-failing card number and nothing else, every type scanned at the
\* default threshold: the one credit_card match scores 0 and no key is made
C11_Witness ==
  /\ text = Grouped(CardStem \o <<1, 2>>, <<" ">>)
  /\ Len(scanned.credit_card) = 1
  /\ Detected /\ Returned
  /\ last.type_ids = None /\ Len(enabled_types) = 8
  /\ confidence_threshold = 50
  /\ Keys = <<>>

-----------------------------------------------------------------------------
(* Properties of two detect calls on one document                          *)

\* last and prev are two detect calls
TwoDetects == last.op = "detect_sensitive_info" /\ prev.op = "detect_sensitive_info"
\* the types a recorded detect call scanned for
RequestedBy(call) == IF call.type_ids = None THEN call.pre_enabled ELSE call.type_ids
\* the list a recorded detect call returned for type_id, empty if it is no key
ListOf(call, type_id) ==
  IF \E k \in 1..Len(call.ret.val) : call.ret.val[k].type_id = type_id
  THEN call.ret.val[CHOOSE k \in 1..Len(call.ret.val) :
                      call.ret.val[k].type_id = type_id].matches
  ELSE <<>>
\* s is t with some of its members left out
RECURSIVE IsSubSeq(_, _)
IsSubSeq(s, t) ==
  IF s = <<>> THEN TRUE
  ELSE IF t = <<>> THEN FALSE
  ELSE IF Head(s) = Head(t) THEN IsSubSeq(Tail(s), Tail(t))
  ELSE IsSubSeq(s, Tail(t))
\* call a was made at a threshold no higher than call b's
Monotone(a, b) ==
  (/\ a.ret.exc = "none" /\ b.ret.exc = "none"
   /\ Range(RequestedBy(a)) = Range(RequestedBy(b))
   /\ a.pre_threshold <= b.pre_threshold)
  => \A type_id \in TypeIds :
       /\ IsSubSeq(ListOf(b, type_id), ListOf(a, type_id))
       /\ Len(ListOf(b, type_id)) <= Len(ListOf(a, type_id))

\* C12: of two detect calls on one text for the same types, the one at the
\* higher threshold returns for every type a sub-sequence of the other's list:
\* the same entries in the same order, none added.
C12_ThresholdMonotone ==
  TwoDetects => (Monotone(prev, last) /\ Monotone(last, prev))

\* two numbers scanned at threshold 0 and then at 50: both, then the first alone
C12_Witness ==
  /\ TwoDetects
  /\ text = Mobile \o <<" ">> \o Placeholder
  /\ prev.type_ids = None /\ last.type_ids = None
  /\ prev.pre_enabled = last.pre_enabled
  /\ prev.pre_threshold = 0 /\ last.pre_threshold = 50
  /\ Len(ListOf(prev, "phone")) = 2
  /\ Len(ListOf(last, "phone")) = 1

\* C13: two detect calls on one text with the same info_types, made with the
\* same enabled types and the same threshold, yield the same outcome: the same
\* types and the same matches in the same order.
C13_SameCallSameMapping ==
  (/\ TwoDetects
   /\ prev.type_ids = last.type_ids
   /\ prev.pre_enabled = last.pre_enabled
   /\ prev.pre_threshold = last.pre_threshold)
  => last.ret = prev.ret

\* the text with a password, a number and a card scanned twice running for
\* every type: three keys both times
C13_Witness ==
  /\ TwoDetects
  /\ text = KwMiMa \o FullColon \o Secret \o <<" ">> \o Mobile \o <<" ">>
              \o Grouped(CardStem \o <<1, 1>>, <<" ">>)
  /\ prev.type_ids = None /\ last.type_ids = None
  /\ prev.pre_enabled = last.pre_enabled /\ Len(last.pre_enabled) = 8
  /\ prev.pre_threshold = 50 /\ last.pre_threshold = 50
  /\ Len(last.ret.val) = 3
  /\ last.ret = prev.ret

\* ids names no type twice
Distinct(ids) == \A h, k \in 1..Len(ids) : ids[h] = ids[k] => h = k
\* the registered types of call a are among those of call b, both sets
Narrower(a, b) ==
  (/\ a.ret.exc = "none" /\ b.ret.exc = "none"
   /\ Distinct(RequestedBy(a)) /\ Distinct(RequestedBy(b))
   /\ Range(RequestedBy(a)) \subseteq Range(RequestedBy(b))
   /\ a.pre_threshold = b.pre_threshold)
  => \A type_id \in Range(RequestedBy(a)) :
       ListOf(a, type_id) = ListOf(b, type_id)

\* C20: of two detect calls on one text at one threshold, one for the types S
\* and one for T with S a subset of T, the lists returned for a type of S are
\* equal: no match is removed or altered because another type matched the span.
C20_NoCrossTypeDedup ==
  TwoDetects => (Narrower(prev, last) /\ Narrower(last, prev))

\* an identity number scanned at threshold 0 for phone, credit_card and
\* password and then for all eight types: the credit_card match is returned
\* both times, the second time beside the id_card match of the same span
C20_Witness ==
  /\ TwoDetects
  /\ text = Num(<<1,1,0,1,0,1,1,9,9,0,0,1,0,1,1,2,3,4>>)
  /\ prev.type_ids = <<"phone", "credit_card", "password">>
  /\ last.type_ids = None /\ Len(last.pre_enabled) = 8
  /\ prev.pre_threshold = 0 /\ last.pre_threshold = 0
  /\ Len(ListOf(prev, "credit_card")) = 1
  /\ ListOf(last, "credit_card") = ListOf(prev, "credit_card")
  /\ Len(ListOf(last, "id_card")) = 1
  /\ ListOf(last, "id_card")[1].start = ListOf(last, "credit_card")[1].start

\* C19: within each list of a returned mapping the matches stand in the order
\* in which the text holds them: each starts after the one before and begins
\* no earlier than the one before ends, password matches included.
C19_DiscoveryOrder ==
  (Detected /\ Returned) =>
    \A k \in 1..Len(last.ret.val) :
      LET matches == last.ret.val[k].matches IN
      \A j \in 1..(Len(matches) - 1) :
        /\ matches[j].start < matches[j + 1].start
        /\ matches[j].end <= matches[j + 1].start

-----------------------------------------------------------------------------
(* Properties of get_available_info_types and format_results               *)

\* C15: whatever setter, detect and format calls came before,
\* get_available_info_types returns the eight entries of the registry, phone,
\* landline, id_card, address, email, password, credit_card, ip_address in this
\* order, each with its name and description, and leaves both fields as they
\* were.
C15_AvailableTypesStable ==
  last.op = "get_available_info_types" =>
    /\ last.ret.exc = "none"
    /\ [ k \in 1..Len(last.ret.val) |-> last.ret.val[k].id ]
         = << "phone", "landline", "id_card", "address", "email", "password",
              "credit_card", "ip_address" >>
    /\ \A k \in 1..Len(last.ret.val) :
         /\ last.ret.val[k].name = names[last.ret.val[k].id]
         /\ last.ret.val[k].description = descriptions[last.ret.val[k].id]
    /\ enabled_types = last.pre_enabled
    /\ confidence_threshold = last.pre_threshold

\* password alone enabled, threshold 100: the call lists eight types
C15_Witness ==
  /\ last.op = "get_available_info_types"
  /\ Range(enabled_types) = {"password"}
  /\ confidence_threshold = 100
  /\ Len(last.ret.val) = 8

\* the report of a mapping, every line with its line end: the header, then per
\* type the heading with the count and per match the numbered value line, with
\* the confidence if it is below 100, the context line and an empty line
ReportOf(results) ==
  LET ValueLine(i, e) ==
        Str(i) \o ValueLabel \o e.value \o << " " >>
          \o (IF e.confidence < 100
              THEN ConfidenceLabel \o Str(e.confidence) \o << "%" >> ELSE <<>>)
      RECURSIVE EntriesFrom(_, _)
      EntriesFrom(matches, i) ==
        IF i > Len(matches) THEN <<>>
        ELSE ValueLine(i, matches[i]) \o << "\n" >>
               \o ContextLabel \o matches[i].context \o << "\n", "\n" >>
               \o EntriesFrom(matches, i + 1)
      RECURSIVE TypesFrom(_)
      TypesFrom(k) ==
        IF k > Len(results) THEN <<>>
        ELSE HeadingOpen \o names[results[k].type_id] \o CountOpen
               \o Str(Len(results[k].matches)) \o CountClose \o << "\n" >>
               \o EntriesFrom(results[k].matches, 1) \o TypesFrom(k + 1)
  IN ReportHeader \o << "\n" >> \o TypesFrom(1)

\* C16: format_results returns "未检测到敏感信息。" for the empty mapping; for a
\* mapping of detect it returns the header and, per type in the mapping's
\* order, one heading with the count of its matches and one numbered entry per
\* match in the list's order, the confidence printed for the matches below 100
\* and for no other; the mapping is left as it was.
C16_ReportHoldsEveryMatch ==
  last.op = "format_results" =>
    /\ last.ret.exc = "none"
    /\ last.ret.val.results = last.results
    /\ last.results = <<>> => last.ret.val.output = NothingFound
    /\ last.results # <<>> =>
         \* the last line is empty: the report ends with the line end before it
         last.ret.val.output \o << "\n" >> = ReportOf(last.results)

\* the mapping of the text with a password (100), a number (80) and a card
\* (80), formatted: three headings
C16_Witness ==
  /\ last.op = "format_results"
  /\ text = KwMiMa \o FullColon \o Secret \o <<" ">> \o Mobile \o <<" ">>
              \o Grouped(CardStem \o <<1, 1>>, <<" ">>)
  /\ Len(last.results) = 3
  /\ \E k \in 1..3 : last.results[k].matches[1].confidence = 100
  /\ \E k \in 1..3 : last.results[k].matches[1].confidence = 80
  /\ last.ret.val.output # NothingFound

-----------------------------------------------------------------------------
(* Properties of the validators and of _get_context                        *)

\* the keywords each validator searches its window for
ListedKeywords ==
  [ phone |-> PhoneKeywords, landline |-> LandlineKeywords, id_card |-> IdCardKeywords,
    address |-> AddressKeywords, email |-> EmailKeywords, password |-> PasswordKeywords,
    credit_card |-> CreditCardKeywords, ip_address |-> IpKeywords ]
\* value passes the format check its validator begins with; the validators of
\* address and password begin with none
Rechecked(type_id, value) ==
  CASE type_id = "phone" ->
         LET ds == DigitsOf(value)
         IN ValidMobile(IF Len(ds) > 11 /\ SubSeq(ds, 1, 2) = <<"8", "6">>
                        THEN SubSeq(ds, 3, Len(ds)) ELSE ds)
    [] type_id = "landline" -> ReMatch(Cat(LandlineBody \o << Eol >>), value)
    [] type_id = "id_card" -> ReMatch(Cat(IdCardBody \o << Eol >>), value)
    [] type_id = "email" -> ReMatch(Cat(EmailBody \o << Eol >>), value)
    [] type_id = "credit_card" ->
         ReMatch(Cat(<< Rep(Set(Digit), 16, 19), Eol >>),
                 SelectSeq(value, LAMBDA c : c \notin {" ", "-"}))
    [] type_id = "ip_address" ->
         LET parts == Split(value, ".")
         IN /\ Len(parts) = 4
            /\ \A k \in 1..4 :
                 parts[k] # <<>> /\ IsDigits(parts[k]) /\ IntOf(parts[k]) <= 255
    [] OTHER -> TRUE
\* a listed keyword of type_id lies inside the window of the span [s, e)
KeywordNear(type_id, s, e) == \E kw \in ListedKeywords[type_id] : InWindow(kw, s, e)

Without(seq, i, j) ==
  LET kept == { k \in 1..Len(seq) : k # i /\ k # j }
      At(n) == CHOOSE k \in kept : Cardinality({ h \in kept : h < k }) = n - 1
  IN [ n \in 1..Cardinality(kept) |-> seq[At(n)] ]

\* C18: for offsets 0 <= start <= end <= len(text), _get_context returns the
\* up to 20 characters before start (fewer only where the text begins), "【",
\* text[start:end], "】" and the up to 20 characters after end (fewer only
\* where the text ends); without the two delimiters the excerpt is the window
\* _get_context_text returns for the same offsets.
C18_ContextExcerpt ==
  last.op = "_get_context" =>
    LET start == last.start
        end == last.end
        before == IF start > 20 THEN 20 ELSE start
        after == IF Len(text) - end > 20 THEN 20 ELSE Len(text) - end
        prefix == SubSeq(text, start - before + 1, start)
        match == SubSeq(text, start + 1, end)
        suffix == SubSeq(text, end + 1, end + after)
        excerpt == last.ret.val
    IN /\ last.ret.exc = "none"
       /\ excerpt = prefix \o << "u3010" >> \o match \o << "u3011" >> \o suffix
       /\ Len(prefix) <= 20 /\ Len(suffix) <= 20
       /\ Without(excerpt, Len(prefix) + 1, Len(prefix) + Len(match) + 2)
            = _get_context_text(text, start, end, ContextSize)

\* a match with more than 20 characters on either side: both contexts are cut
C18_Witness ==
  /\ last.op = "_get_context"
  /\ last.start > 20 /\ last.end > last.start /\ Len(text) - last.end > 20
  /\ Len(last.ret.val) = 20 + 1 + (last.end - last.start) + 1 + 20

-----------------------------------------------------------------------------
(* Properties of concurrent detect calls                                   *)

\* C14: a detect call that runs while other detect calls run on the same
\* detector yields, under every interleaving, what it yields when it runs
\* alone, and the detector's enabled_types and confidence_threshold are when it
\* ends what they were when it began.
C14_ConcurrentAsAlone ==
  \A w \in DOMAIN workers :
    workers[w].pc = "done" =>
      /\ workers[w].ret =
           detect_sensitive_info(workers[w].text, workers[w].info_types,
                                 workers[w].pre_enabled, workers[w].pre_threshold,
                                 scanned[w], <<>>)
      /\ enabled_types = workers[w].pre_enabled
      /\ confidence_threshold = workers[w].pre_threshold

\* two calls that ran at the same time have both returned a mapping with a
\* match in it
C14_Witness ==
  \E a, b \in DOMAIN workers :
    /\ a # b
    /\ workers[a].pc = "done" /\ workers[b].pc = "done"
    /\ workers[a].overlapped /\ workers[b].overlapped
    /\ workers[a].ret.exc = "none" /\ workers[a].ret.val # <<>>
    /\ workers[b].ret.exc = "none" /\ workers[b].ret.val # <<>>
    /\ workers[a].ret.val # workers[b].ret.val

-----------------------------------------------------------------------------
(* Properties of a list of types that names a type more than once          *)

\* the number of entries of the list returned for type_id that report the
\* span [start, end)
Reports(type_id, start, end) ==
  Cardinality({ k \in 1..Len(MatchesOf(type_id)) :
                  /\ MatchesOf(type_id)[k].start = start
                  /\ MatchesOf(type_id)[k].end = end })

\* C21: every occurrence in the text that scores at least the threshold stands
\* exactly once in the list of its type, whatever list of registered types is
\* requested, also one that names a type more than once.
C21_OccurrenceOnce ==
  (Detected /\ Returned) =>
    \A type_id \in Range(Requested) \cap TypeIds :
      \A k \in 1..Len(scanned[type_id]) :
        LET c == scanned[type_id][k]
            inner == type_id = "password" /\ c.m.gstart # -1
            start == IF inner THEN c.m.gstart ELSE c.m.start
            end == IF inner THEN c.m.gend ELSE c.m.end
        IN c.v.val >= confidence_threshold => Reports(type_id, start, end) = 1

-----------------------------------------------------------------------------
(* Properties of the window's scans                                        *)

\* the entries of seq that are for the file at index
EntriesFor(seq, index) == { k \in 1..Len(seq) : seq[k].file = index }

\* C22: when a scan runs to its report and stop_scan was never called, the
\* report is written from all_results holding exactly one entry, result or
\* error, for every listed file, and no result or error is left in the queue.
C22_ReportHoldsEveryFile ==
  \A s \in 1..Len(scans) :
    (scans[s].reported /\ \A r \in 1..Len(scans) : ~scans[r].stopped) =>
      /\ Len(scans[s].report) = Len(scans[s].files)
      /\ \A index \in 1..Len(scans[s].files) :
           Cardinality(EntriesFor(scans[s].report, index)) = 1
      /\ \A k \in 1..Len(scans[s].result_queue) :
           scans[s].result_queue[k].type = "progress"

\* C23: the worker of a scan takes no file once a later start_scan has started
\* its own worker, so that at most one worker is processing files.
C23_OneWorkerProcesses ==
  \A s \in 1..Len(scans) : ~scans[s].overtaken
====
